---- MODULE Spec2Model ----
(***************************************************************************)
(* GestureEventQueue (content/browser/renderer_host/input): the debounce   *)
(* stage, the forwarding path and the ack-ordering buffer, modelled from   *)
(* src/content/renderer/p2p/mdns_responder_adapter.cc lines 64-296.        *)
(*                                                                         *)
(* The queue runs on one thread.  The two calls it makes into its client   *)
(* (SendGestureEventImmediately and OnGestureEventAck) may call back into  *)
(* ProcessGestureAck before they return, so a handler is modelled as the   *)
(* steps between those calls: `stack` holds the frames of the calls that   *)
(* have not returned yet, and while it is non-empty only the client's      *)
(* nested acknowledgments and the forced continuation of the innermost     *)
(* frame are enabled.                                                      *)
(***************************************************************************)
EXTENDS Integers, Sequences, FiniteSets, TLC

\* ------------------------------------------------------------------ bounds
\* Number of gesture events handed to DebounceOrForwardEvent in one run.
MaxEvents == 3
\* The clock stops after this many debounce intervals.
MaxTime == 3

\* ------------------------------------------------------------- value sets
ScrollBegin  == "GestureScrollBegin"
ScrollUpdate == "GestureScrollUpdate"
ScrollEnd    == "GestureScrollEnd"
PinchBegin   == "GesturePinchBegin"
PinchUpdate  == "GesturePinchUpdate"
PinchEnd     == "GesturePinchEnd"
FlingStart   == "GestureFlingStart"
FlingCancel  == "GestureFlingCancel"
Tap          == "GestureTap"

PinchTypes == {PinchBegin, PinchUpdate, PinchEnd}
FlingTypes == {FlingStart, FlingCancel}
EventTypes == {ScrollBegin, ScrollUpdate, ScrollEnd, Tap} \cup PinchTypes \cup FlingTypes

ACK_UNKNOWN == "INPUT_EVENT_ACK_STATE_UNKNOWN"
\* The results a client acknowledges with: it reports an outcome, never UNKNOWN.
AckStates   == {"CONSUMED", "NOT_CONSUMED"}
SOURCE_NONE == "InputEventAckSource::UNKNOWN"
AckSources  == {"COMPOSITOR_THREAD", "MAIN_THREAD"}
\* The (ack_source, ack_result) pairs the client acknowledges with.
AckInfos    == {<<"COMPOSITOR_THREAD", "CONSUMED">>, <<"MAIN_THREAD", "NOT_CONSUMED">>}

\* The configured debounce intervals explored: disabled, and one quiet period.
DebounceIntervals == {0, 1}

VARIABLES
    sent_events_awaiting_ack_,   \* the ack-ordering buffer
    processing_acks_,            \* re-entrancy guard of AckCompletedEvents
    scrolling_in_progress_,
    debounce_interval_,
    debouncing_deferral_queue_,
    timer_running,               \* debounce_deferring_timer_ is armed
    fling_in_progress,           \* fling_controller_.fling_in_progress()
    dcheck_is_on,                \* the build keeps DCHECKs
    crashed,                     \* a DCHECK failed
    stack,                       \* calls that have not returned yet
    next_id,                     \* identity of the next event created upstream
    inputs,                      \* history: DebounceOrForwardEvent calls and timer fires
    sent,                        \* history: events passed to SendGestureEventImmediately
    reported,                    \* history: OnGestureEventAck invocations
    acked,                       \* history: acknowledgments that matched an entry, and what they carried
    filtered,                    \* history: deferred events the fling controller took at the flush
    flush_offered,               \* history: deferred events the flush passed to the controller's filter
    deferred_gesture_queue_,     \* the side queue of QueueDeferredEvents / TakeDeferredEvents
    last_call,                   \* owner's record: the most recent call into the queue and what it returned
    offered,                     \* owner's record: events it passed to FlingControllerFilterEvent
    stashed,                     \* owner's record: events it stashed since it last took them
    forward_trace,               \* history: what ForwardGestureEvent did, call by call, in order
    now,                         \* the clock of debounce_deferring_timer_, in debounce intervals
    timer_due,                   \* the times at which callbacks of debounce_deferring_timer_ are due
    last_scroll_update           \* history: when the debounce stage last handled a scroll update

vars == <<sent_events_awaiting_ack_, processing_acks_, scrolling_in_progress_,
          debounce_interval_, debouncing_deferral_queue_, timer_running,
          fling_in_progress, dcheck_is_on, crashed, stack, next_id,
          inputs, sent, reported, acked, filtered, flush_offered,
          deferred_gesture_queue_, last_call, offered, stashed, forward_trace,
          now, timer_due, last_scroll_update>>

Event(id, type) == [id |-> id, type |-> type]

\* The ack-state wrapper built when an event is forwarded.
GestureEventWithLatencyInfoAndAckState(e) ==
    [id |-> e.id, type |-> e.type, ack_state |-> ACK_UNKNOWN, ack_source |-> SOURCE_NONE]

\* The owner's record of a call: the operation, the type of the event passed,
\* what the fling controller's filter answered, the value returned, the calls
\* made into the fling controller, the events handed back, and how an
\* acknowledgment was received.
Call(op, type, consumed, ret, calls, taken, outcome) ==
    [op |-> op, type |-> type, consumed |-> consumed, ret |-> ret,
     calls |-> calls, taken |-> taken, outcome |-> outcome]
NoCall == Call("none", "none", FALSE, FALSE, <<>>, <<>>, "none")

Init ==
    /\ sent_events_awaiting_ack_ = <<>>
    /\ processing_acks_ = FALSE
    /\ scrolling_in_progress_ = FALSE
    /\ debounce_interval_ \in DebounceIntervals
    /\ debouncing_deferral_queue_ = <<>>
    /\ timer_running = FALSE
    /\ fling_in_progress = FALSE
    /\ dcheck_is_on \in BOOLEAN
    /\ crashed = FALSE
    /\ stack = <<>>
    /\ next_id = 1
    /\ inputs = <<>>
    /\ sent = <<>>
    /\ reported = <<>>
    /\ acked = <<>>
    /\ filtered = {}
    /\ flush_offered = {}
    /\ deferred_gesture_queue_ = <<>>
    /\ last_call = NoCall
    /\ offered = {}
    /\ stashed = <<>>
    /\ forward_trace = <<>>
    /\ now = 0
    /\ timer_due = {}
    /\ last_scroll_update = 0

\* ------------------------------------------------------------ call stack
SendFrame(e)   == [op |-> "send", ev |-> e, rest |-> <<>>]
ReportFrame(e) == [op |-> "report", ev |-> e, rest |-> <<>>]
DrainFrame(q)  == [op |-> "drain", ev |-> Event(0, "none"), rest |-> q]

Top == stack[Len(stack)]
Pop(s) == SubSeq(s, 1, Len(s) - 1)
AtTopLevel == stack = <<>> /\ ~crashed
InClientCallback == stack # <<>> /\ Top.op \in {"send", "report"} /\ ~crashed

\* ------------------------------------------------- variable groups (frames)
debounceVars == <<scrolling_in_progress_, debouncing_deferral_queue_, timer_running>>
ackVars      == <<sent_events_awaiting_ack_, processing_acks_, reported, acked>>
configVars   == <<debounce_interval_, dcheck_is_on>>
ownerVars    == <<last_call, offered, stashed>>
timeVars     == <<now, timer_due, last_scroll_update>>

\* ------------------------------------------------------- debounce stage
\* ShouldForwardForBounceReduction: the value it returns and the debounce
\* state it leaves behind, for event e in the current state.
Decision(fwd, scrolling, timer, queue) ==
    [forward |-> fwd, scrolling |-> scrolling, timer |-> timer, queue |-> queue]

KeepDebounceState(fwd) ==
    Decision(fwd, scrolling_in_progress_, timer_running, debouncing_deferral_queue_)

\* Mutant: a scroll update leaves the deferral queue as it is.
ShouldForward_NoClear(e) ==
    IF debounce_interval_ <= 0 THEN KeepDebounceState(TRUE)
    ELSE IF fling_in_progress THEN KeepDebounceState(TRUE)
    ELSE IF e.type = ScrollUpdate
         THEN Decision(TRUE, TRUE, TRUE, debouncing_deferral_queue_)
    ELSE IF e.type \in PinchTypes THEN KeepDebounceState(TRUE)
    ELSE IF scrolling_in_progress_
         THEN Decision(FALSE, scrolling_in_progress_, timer_running,
                       Append(debouncing_deferral_queue_, e))
    ELSE KeepDebounceState(TRUE)

\* Mutant: the fling controller is not asked whether a fling is in progress.
ShouldForward_NoFlingCheck(e) ==
    IF debounce_interval_ <= 0 THEN KeepDebounceState(TRUE)
    ELSE IF e.type = ScrollUpdate
         THEN Decision(TRUE, TRUE, TRUE, <<>>)
    ELSE IF e.type \in PinchTypes THEN KeepDebounceState(TRUE)
    ELSE IF scrolling_in_progress_
         THEN Decision(FALSE, scrolling_in_progress_, timer_running,
                       Append(debouncing_deferral_queue_, e))
    ELSE KeepDebounceState(TRUE)

\* Mutant: the pinch types have no case of their own.
ShouldForward_NoPinchCase(e) ==
    IF debounce_interval_ <= 0 THEN KeepDebounceState(TRUE)
    ELSE IF fling_in_progress THEN KeepDebounceState(TRUE)
    ELSE IF e.type = ScrollUpdate
         THEN Decision(TRUE, TRUE, TRUE, <<>>)
    ELSE IF scrolling_in_progress_
         THEN Decision(FALSE, scrolling_in_progress_, timer_running,
                       Append(debouncing_deferral_queue_, e))
    ELSE KeepDebounceState(TRUE)

\* Mutant: a debounce interval of zero does not switch debouncing off.
ShouldForward_NoIntervalCheck(e) ==
    IF fling_in_progress THEN KeepDebounceState(TRUE)
    ELSE IF e.type = ScrollUpdate
         THEN Decision(TRUE, TRUE, TRUE, <<>>)
    ELSE IF e.type \in PinchTypes THEN KeepDebounceState(TRUE)
    ELSE IF scrolling_in_progress_
         THEN Decision(FALSE, scrolling_in_progress_, timer_running,
                       Append(debouncing_deferral_queue_, e))
    ELSE KeepDebounceState(TRUE)

\* Mutant: an event appended to the deferral queue is reported as forwarded.
ShouldForward_DeferAndForward(e) ==
    IF debounce_interval_ <= 0 THEN KeepDebounceState(TRUE)
    ELSE IF fling_in_progress THEN KeepDebounceState(TRUE)
    ELSE IF e.type = ScrollUpdate
         THEN Decision(TRUE, TRUE, TRUE, <<>>)
    ELSE IF e.type \in PinchTypes THEN KeepDebounceState(TRUE)
    ELSE IF scrolling_in_progress_
         THEN Decision(TRUE, scrolling_in_progress_, timer_running,
                       Append(debouncing_deferral_queue_, e))
    ELSE KeepDebounceState(TRUE)

\* Mutant: while scrolling is flagged a scroll update is deferred like any
\* other event.
ShouldForward_ScrollUpdateDeferred(e) ==
    IF debounce_interval_ <= 0 THEN KeepDebounceState(TRUE)
    ELSE IF fling_in_progress THEN KeepDebounceState(TRUE)
    ELSE IF e.type = ScrollUpdate /\ ~scrolling_in_progress_
         THEN Decision(TRUE, TRUE, TRUE, <<>>)
    ELSE IF e.type \in PinchTypes THEN KeepDebounceState(TRUE)
    ELSE IF scrolling_in_progress_
         THEN Decision(FALSE, scrolling_in_progress_, timer_running,
                       Append(debouncing_deferral_queue_, e))
    ELSE KeepDebounceState(TRUE)

\* Mutant: during a fling a scroll update is forwarded but still restarts the
\* debounce state.
ShouldForward_FlingRestarts(e) ==
    IF debounce_interval_ <= 0 THEN KeepDebounceState(TRUE)
    ELSE IF e.type = ScrollUpdate
         THEN Decision(TRUE, TRUE, TRUE, <<>>)
    ELSE IF fling_in_progress THEN KeepDebounceState(TRUE)
    ELSE IF e.type \in PinchTypes THEN KeepDebounceState(TRUE)
    ELSE IF scrolling_in_progress_
         THEN Decision(FALSE, scrolling_in_progress_, timer_running,
                       Append(debouncing_deferral_queue_, e))
    ELSE KeepDebounceState(TRUE)

ShouldForwardForBounceReduction(e) ==
    IF debounce_interval_ <= 0 THEN KeepDebounceState(TRUE)
    ELSE IF fling_in_progress THEN KeepDebounceState(TRUE)
    ELSE IF e.type = ScrollUpdate
         \* Start the timer, or Reset() it: armed either way, a single timer.
         THEN Decision(TRUE, TRUE, TRUE, <<>>)
    ELSE IF e.type \in PinchTypes THEN KeepDebounceState(TRUE)
    ELSE IF scrolling_in_progress_
         THEN Decision(FALSE, scrolling_in_progress_, timer_running,
                       Append(debouncing_deferral_queue_, e))
    ELSE KeepDebounceState(TRUE)

\* ----------------------------------------------------------- forwarding
\* The DCHECK_NE pair at the head of DebounceOrForwardEvent and of
\* ForwardGestureEvent: fatal where DCHECKs are compiled in, absent otherwise.
DcheckFails(e) == dcheck_is_on /\ e.type \in FlingTypes

\* Mutant: the fling scheduler observer is registered for scroll end as well
\* and never unregistered.
ForwardGestureEventCalls_RegisterOnly(e) ==
    <<"push_back">>
    \o (IF e.type \in {ScrollBegin, ScrollEnd}
        THEN <<"RegisterFlingSchedulerObserver">> ELSE <<>>)
    \o <<"SendGestureEventImmediately">>

\* What ForwardGestureEvent does with an event that passes its DCHECKs, in
\* the order of its statements.
ForwardGestureEventCalls(e) ==
    <<"push_back">>
    \o (IF e.type = ScrollBegin THEN <<"RegisterFlingSchedulerObserver">>
        ELSE IF e.type = ScrollEnd THEN <<"UnregisterFlingSchedulerObserver">>
        ELSE <<>>)
    \o <<"SendGestureEventImmediately">>

\* The calls of one ForwardGestureEvent, each with the event it is made for.
Traced(e, calls) == [i \in 1..Len(calls) |-> [op |-> calls[i], id |-> e.id]]

\* Mutant: the client's SendGestureEventImmediately runs before the entry is
\* in the buffer.
ForwardGestureEvent_SendFirst(e, below) ==
    IF DcheckFails(e)
    THEN /\ crashed' = TRUE
         /\ stack' = below
         /\ UNCHANGED <<sent_events_awaiting_ack_, sent, forward_trace>>
    ELSE /\ sent' = Append(sent, e)
         /\ forward_trace' = forward_trace \o Traced(e, ForwardGestureEventCalls(e))
         /\ stack' = Append(below, SendFrame(e))
         /\ UNCHANGED <<sent_events_awaiting_ack_, crashed>>

\* Mutant: the entry is put at the front of the buffer.
ForwardGestureEvent_PushFront(e, below) ==
    IF DcheckFails(e)
    THEN /\ crashed' = TRUE
         /\ stack' = below
         /\ UNCHANGED <<sent_events_awaiting_ack_, sent, forward_trace>>
    ELSE /\ sent_events_awaiting_ack_' =
              <<GestureEventWithLatencyInfoAndAckState(e)>> \o sent_events_awaiting_ack_
         /\ sent' = Append(sent, e)
         /\ forward_trace' = forward_trace \o Traced(e, ForwardGestureEventCalls(e))
         /\ stack' = Append(below, SendFrame(e))
         /\ UNCHANGED crashed

\* ForwardGestureEvent(e), called with `below` as the frames of its callers:
\* the entry is appended, then the client's SendGestureEventImmediately runs
\* (the new send frame), from which the client may acknowledge.
ForwardGestureEvent(e, below) ==
    IF DcheckFails(e)
    THEN /\ crashed' = TRUE
         /\ stack' = below
         /\ UNCHANGED <<sent_events_awaiting_ack_, sent, forward_trace>>
    ELSE /\ sent_events_awaiting_ack_' =
              Append(sent_events_awaiting_ack_, GestureEventWithLatencyInfoAndAckState(e))
         /\ sent' = Append(sent, e)
         /\ forward_trace' = forward_trace \o Traced(e, ForwardGestureEventCalls(e))
         /\ stack' = Append(below, SendFrame(e))
         /\ UNCHANGED crashed

InputRecord(e, ret) ==
    [id |-> e.id, type |-> e.type, fling |-> fling_in_progress,
     scrolling |-> scrolling_in_progress_, ret |-> ret]
TimerRecord ==
    [id |-> 0, type |-> "TimerFired", fling |-> fling_in_progress,
     scrolling |-> scrolling_in_progress_, ret |-> FALSE]

\* DebounceOrForwardEvent(gesture_event) on a fresh event of the given type.
DebounceOrForwardEvent(type) ==
    /\ AtTopLevel
    /\ next_id <= MaxEvents
    /\ LET e == Event(next_id, type)
           d == ShouldForwardForBounceReduction(e)
       IN  /\ next_id' = next_id + 1
           /\ IF DcheckFails(e)
              THEN /\ crashed' = TRUE
                   /\ inputs' = Append(inputs, InputRecord(e, FALSE))
                   /\ UNCHANGED <<debounceVars, sent_events_awaiting_ack_, sent, forward_trace, stack>>
              ELSE /\ scrolling_in_progress_' = d.scrolling
                   /\ timer_running' = d.timer
                   /\ debouncing_deferral_queue_' = d.queue
                   /\ inputs' = Append(inputs, InputRecord(e, d.forward))
                   /\ IF d.forward
                      THEN ForwardGestureEvent(e, stack)
                      ELSE UNCHANGED <<sent_events_awaiting_ack_, sent, forward_trace, stack, crashed>>
    /\ UNCHANGED <<processing_acks_, reported, acked, filtered, flush_offered,
                   deferred_gesture_queue_, fling_in_progress, configVars>>

\* The client returns from SendGestureEventImmediately.
SendReturns ==
    /\ ~crashed
    /\ stack # <<>> /\ Top.op = "send"
    /\ stack' = Pop(stack)
    /\ UNCHANGED <<ackVars, debounceVars, configVars, fling_in_progress, crashed,
                   next_id, inputs, sent, forward_trace, filtered, flush_offered, deferred_gesture_queue_>>

\* ------------------------------------------------- ack-ordering buffer
\* Mutant: the scan stops at the first Unknown entry whatever its type.
FirstUnknownOfType_AnyType(buf, type) ==
    LET hits == {i \in 1..Len(buf) : buf[i].ack_state = ACK_UNKNOWN}
    IN  IF hits = {} THEN 0 ELSE CHOOSE i \in hits : \A j \in hits : i <= j

\* Mutant: the scan keeps the last Unknown entry of the type, not the first.
FirstUnknownOfType_Last(buf, type) ==
    LET hits == {i \in 1..Len(buf) :
                    buf[i].ack_state = ACK_UNKNOWN /\ buf[i].type = type}
    IN  IF hits = {} THEN 0 ELSE CHOOSE i \in hits : \A j \in hits : i >= j

\* Mutant: the scan stops at the first entry of the type whatever its state.
FirstUnknownOfType_AnyState(buf, type) ==
    LET hits == {i \in 1..Len(buf) : buf[i].type = type}
    IN  IF hits = {} THEN 0 ELSE CHOOSE i \in hits : \A j \in hits : i <= j

\* The scan of ProcessGestureAck: the first entry that is still Unknown and
\* of the acknowledged type (0: none).
FirstUnknownOfType(buf, type) ==
    LET hits == {i \in 1..Len(buf) :
                    buf[i].ack_state = ACK_UNKNOWN /\ buf[i].type = type}
    IN  IF hits = {} THEN 0 ELSE CHOOSE i \in hits : \A j \in hits : i <= j

\* Mutant: the source is recorded but the state is left Unknown.
set_ack_info_Lost(buf, i, ack_source, ack_result) ==
    [buf EXCEPT ![i] = [@ EXCEPT !.ack_source = ack_source]]

set_ack_info(buf, i, ack_source, ack_result) ==
    [buf EXCEPT ![i] = [@ EXCEPT !.ack_state = ack_result, !.ack_source = ack_source]]

\* Mutant: the front entry is released whatever its state.
FrontIsComplete_NoCheck(buf) == buf # <<>>

\* The loop test of AckCompletedEvents: the front entry is released next.
FrontIsComplete(buf) == buf # <<>> /\ buf[1].ack_state # ACK_UNKNOWN

\* Mutant: a pass that is already running does not keep a second one out.
ReentrantPass_Never == FALSE

\* Mutant: the guard always finds a pass running.
ReentrantPass_Always == TRUE

\* The guard of AckCompletedEvents: a pass is already running further up.
ReentrantPass == processing_acks_

\* What OnGestureEventAck is called with.
Report(entry) ==
    [id |-> entry.id, type |-> entry.type,
     ack_source |-> entry.ack_source, ack_state |-> entry.ack_state]

\* Mutant: the front entry is reported but not erased.
AckCompletedEventsLoop_NoErase(buf, below) ==
    IF buf # <<>> /\ buf[1].ack_state # ACK_UNKNOWN
    THEN /\ sent_events_awaiting_ack_' = buf
         /\ reported' = Append(reported, Report(Head(buf)))
         /\ processing_acks_' = TRUE
         /\ stack' = Append(below, ReportFrame(Event(Head(buf).id, Head(buf).type)))
    ELSE /\ sent_events_awaiting_ack_' = buf
         /\ processing_acks_' = FALSE
         /\ stack' = below
         /\ UNCHANGED reported

\* Mutant: any completed entry is released, not only the front one.
AckCompletedEventsLoop_AnyKnown(buf, below) ==
    LET known == {i \in 1..Len(buf) : buf[i].ack_state # ACK_UNKNOWN}
    IN  IF known # {}
        THEN LET i == CHOOSE i \in known : \A j \in known : i <= j
             IN  /\ sent_events_awaiting_ack_' =
                        SubSeq(buf, 1, i - 1) \o SubSeq(buf, i + 1, Len(buf))
                 /\ reported' = Append(reported, Report(buf[i]))
                 /\ processing_acks_' = TRUE
                 /\ stack' = Append(below, ReportFrame(Event(buf[i].id, buf[i].type)))
        ELSE /\ sent_events_awaiting_ack_' = buf
             /\ processing_acks_' = FALSE
             /\ stack' = below
             /\ UNCHANGED reported

\* One turn of the loop of AckCompletedEvents over buffer buf, with `below`
\* the frames of the callers: the front entry is copied and erased and the
\* client's OnGestureEventAck runs (the report frame); or the pass ends.
AckCompletedEventsLoop(buf, below) ==
    IF FrontIsComplete(buf)
    THEN /\ sent_events_awaiting_ack_' = Tail(buf)
         /\ reported' = Append(reported, Report(Head(buf)))
         /\ processing_acks_' = TRUE
         /\ stack' = Append(below, ReportFrame(Event(Head(buf).id, Head(buf).type)))
    ELSE /\ sent_events_awaiting_ack_' = buf
         /\ processing_acks_' = FALSE
         /\ stack' = below
         /\ UNCHANGED reported

\* The call comes from inside OnGestureEventAck.
NestedInReport == stack # <<>> /\ Top.op = "report"

\* Mutant: an acknowledgment that finds the buffer empty is passed on to the
\* client.
ProcessGestureAck_ReportsUnexpected(ack_source, ack_result, type) ==
    /\ AtTopLevel \/ InClientCallback
    /\ IF sent_events_awaiting_ack_ = <<>>
       THEN /\ reported' = Append(reported, [id |-> 0, type |-> type,
                                             ack_source |-> ack_source,
                                             ack_state |-> ack_result])
            /\ UNCHANGED <<sent_events_awaiting_ack_, processing_acks_, acked, stack>>
       ELSE LET i   == FirstUnknownOfType(sent_events_awaiting_ack_, type)
                buf == IF i = 0 THEN sent_events_awaiting_ack_
                       ELSE set_ack_info(sent_events_awaiting_ack_, i, ack_source, ack_result)
            IN  /\ acked' = IF i = 0 THEN acked
                            ELSE Append(acked, [id |-> sent_events_awaiting_ack_[i].id,
                                                nested |-> NestedInReport,
                                                ack_source |-> ack_source,
                                                ack_state |-> ack_result])
                /\ IF ReentrantPass
                   THEN /\ sent_events_awaiting_ack_' = buf
                        /\ UNCHANGED <<processing_acks_, reported, stack>>
                   ELSE AckCompletedEventsLoop(buf, stack)
    /\ UNCHANGED <<debounceVars, configVars, fling_in_progress, crashed, next_id,
                   inputs, sent, forward_trace, filtered, flush_offered, deferred_gesture_queue_>>

\* ProcessGestureAck(ack_source, ack_result, type, latency), called by the
\* client from a task of its own or from inside one of the two callbacks.
ProcessGestureAck(ack_source, ack_result, type) ==
    /\ AtTopLevel \/ InClientCallback
    /\ IF sent_events_awaiting_ack_ = <<>>
       THEN UNCHANGED ackVars /\ UNCHANGED stack
       ELSE LET i   == FirstUnknownOfType(sent_events_awaiting_ack_, type)
                buf == IF i = 0 THEN sent_events_awaiting_ack_
                       ELSE set_ack_info(sent_events_awaiting_ack_, i, ack_source, ack_result)
            IN  /\ acked' = IF i = 0 THEN acked
                            ELSE Append(acked, [id |-> sent_events_awaiting_ack_[i].id,
                                                nested |-> NestedInReport,
                                                ack_source |-> ack_source,
                                                ack_state |-> ack_result])
                /\ IF ReentrantPass
                   THEN /\ sent_events_awaiting_ack_' = buf
                        /\ UNCHANGED <<processing_acks_, reported, stack>>
                   ELSE AckCompletedEventsLoop(buf, stack)
    /\ UNCHANGED <<debounceVars, configVars, fling_in_progress, crashed, next_id,
                   inputs, sent, forward_trace, filtered, flush_offered, deferred_gesture_queue_>>

\* Mutant: the pass ends when OnGestureEventAck returns, whatever the front
\* entry has become.
ReportReturns_EndsPass ==
    /\ ~crashed
    /\ stack # <<>> /\ Top.op = "report"
    /\ processing_acks_' = FALSE
    /\ stack' = Pop(stack)
    /\ UNCHANGED <<sent_events_awaiting_ack_, reported, acked, debounceVars, configVars,
                   fling_in_progress, crashed, next_id, inputs, sent, forward_trace, filtered,
                   flush_offered, deferred_gesture_queue_>>

\* The client returns from OnGestureEventAck: the loop of the running pass
\* takes its next turn.
ReportReturns ==
    /\ ~crashed
    /\ stack # <<>> /\ Top.op = "report"
    /\ AckCompletedEventsLoop(sent_events_awaiting_ack_, Pop(stack))
    /\ UNCHANGED <<acked, debounceVars, configVars, fling_in_progress, crashed,
                   next_id, inputs, sent, forward_trace, filtered, flush_offered, deferred_gesture_queue_>>

\* ------------------------------------------------------------ timer fire
\* Mutant: the flush clears the deferral queue without forwarding it.
SendScrollEndingEventsNow_Drop ==
    /\ AtTopLevel
    /\ timer_running
    /\ timer_running' = FALSE
    /\ scrolling_in_progress_' = FALSE
    /\ debouncing_deferral_queue_' = <<>>
    /\ inputs' = Append(inputs, TimerRecord)
    /\ UNCHANGED <<ackVars, configVars, fling_in_progress, crashed, next_id,
                   sent, forward_trace, filtered, flush_offered, deferred_gesture_queue_, stack>>

\* Mutant: the flush forwards a copy of the deferral queue and leaves the
\* queue as it is.
SendScrollEndingEventsNow_KeepQueue ==
    /\ AtTopLevel
    /\ timer_running
    /\ timer_running' = FALSE
    /\ scrolling_in_progress_' = FALSE
    /\ debouncing_deferral_queue_' = debouncing_deferral_queue_
    /\ inputs' = Append(inputs, TimerRecord)
    /\ stack' = IF debouncing_deferral_queue_ = <<>> THEN stack
                ELSE Append(stack, DrainFrame(debouncing_deferral_queue_))
    /\ UNCHANGED <<ackVars, configVars, fling_in_progress, crashed, next_id,
                   sent, forward_trace, filtered, flush_offered, deferred_gesture_queue_>>

\* Mutant: the timer fire clears the flag and returns without flushing.
SendScrollEndingEventsNow_NoFlush ==
    /\ AtTopLevel
    /\ timer_running
    /\ timer_running' = FALSE
    /\ scrolling_in_progress_' = FALSE
    /\ inputs' = Append(inputs, TimerRecord)
    /\ UNCHANGED <<ackVars, configVars, fling_in_progress, crashed, next_id, stack,
                   debouncing_deferral_queue_, sent, forward_trace, filtered,
                   flush_offered, deferred_gesture_queue_>>

\* SendScrollEndingEventsNow, run by debounce_deferring_timer_ (one shot).
SendScrollEndingEventsNow ==
    /\ AtTopLevel
    /\ timer_running
    /\ timer_running' = FALSE
    /\ scrolling_in_progress_' = FALSE
    /\ debouncing_deferral_queue_' = <<>>
    /\ inputs' = Append(inputs, TimerRecord)
    /\ stack' = IF debouncing_deferral_queue_ = <<>> THEN stack
                ELSE Append(stack, DrainFrame(debouncing_deferral_queue_))
    /\ UNCHANGED <<ackVars, configVars, fling_in_progress, crashed, next_id,
                   sent, forward_trace, filtered, flush_offered, deferred_gesture_queue_>>

\* Mutant: the flush forwards the deferred events without asking the fling
\* controller.
DrainNext_NoFilter(consumed) ==
    /\ ~crashed
    /\ stack # <<>> /\ Top.op = "drain"
    /\ Top.rest # <<>>
    /\ ForwardGestureEvent(Head(Top.rest), Append(Pop(stack), DrainFrame(Tail(Top.rest))))
    /\ UNCHANGED <<processing_acks_, reported, acked, debounceVars, configVars,
                   fling_in_progress, next_id, inputs, deferred_gesture_queue_,
                   filtered, flush_offered>>

\* Mutant: the loop of the flush walks the swapped-out queue from its tail.
DrainNext_FromTail(consumed) ==
    /\ ~crashed
    /\ stack # <<>> /\ Top.op = "drain"
    /\ Top.rest # <<>>
    /\ LET e     == Top.rest[Len(Top.rest)]
           below == Append(Pop(stack), DrainFrame(SubSeq(Top.rest, 1, Len(Top.rest) - 1)))
       IN  /\ flush_offered' = flush_offered \cup {e.id}
           /\ IF consumed
              THEN /\ filtered' = filtered \cup {e.id}
                   /\ stack' = below
                   /\ UNCHANGED <<sent_events_awaiting_ack_, sent, forward_trace, crashed>>
              ELSE /\ ForwardGestureEvent(e, below)
                   /\ UNCHANGED filtered
    /\ UNCHANGED <<processing_acks_, reported, acked, debounceVars, configVars,
                   fling_in_progress, next_id, inputs, deferred_gesture_queue_>>

\* One turn of the loop of SendScrollEndingEventsNow over the swapped-out
\* queue: the fling controller is asked again, and what it leaves is forwarded.
\* Mutant: the loop of the flush does not step past the event it forwarded.
DrainNext_Resend(consumed) ==
    /\ ~crashed
    /\ stack # <<>> /\ Top.op = "drain"
    /\ Top.rest # <<>>
    /\ LET e     == Head(Top.rest)
           below == Append(Pop(stack), DrainFrame(Tail(Top.rest)))
           again == Append(Pop(stack), DrainFrame(Top.rest))
       IN  /\ flush_offered' = flush_offered \cup {e.id}
           /\ IF consumed
              THEN /\ filtered' = filtered \cup {e.id}
                   /\ stack' = below
                   /\ UNCHANGED <<sent_events_awaiting_ack_, sent, forward_trace, crashed>>
              ELSE /\ ForwardGestureEvent(e, again)
                   /\ UNCHANGED filtered
    /\ UNCHANGED <<processing_acks_, reported, acked, debounceVars, configVars,
                   fling_in_progress, next_id, inputs, deferred_gesture_queue_>>

DrainNext(consumed) ==
    /\ ~crashed
    /\ stack # <<>> /\ Top.op = "drain"
    /\ Top.rest # <<>>
    /\ LET e     == Head(Top.rest)
           below == Append(Pop(stack), DrainFrame(Tail(Top.rest)))
       IN  /\ flush_offered' = flush_offered \cup {e.id}
           /\ IF consumed
              THEN /\ filtered' = filtered \cup {e.id}
                   /\ stack' = below
                   /\ UNCHANGED <<sent_events_awaiting_ack_, sent, forward_trace, crashed>>
              ELSE /\ ForwardGestureEvent(e, below)
                   /\ UNCHANGED filtered
    /\ UNCHANGED <<processing_acks_, reported, acked, debounceVars, configVars,
                   fling_in_progress, next_id, inputs, deferred_gesture_queue_>>

\* The loop of SendScrollEndingEventsNow is over.
DrainDone ==
    /\ ~crashed
    /\ stack # <<>> /\ Top.op = "drain"
    /\ Top.rest = <<>>
    /\ stack' = Pop(stack)
    /\ UNCHANGED <<ackVars, debounceVars, configVars, fling_in_progress, crashed,
                   next_id, inputs, sent, forward_trace, filtered, flush_offered, deferred_gesture_queue_>>

\* -------------------------------------------------------- fling controller
\* The fling controller's own state after it is handed a fling start (it
\* starts a fling or declines to), after a fling cancel, and after StopFling or
\* the end of the fling's progress.
ProcessGestureFlingStart(started) == started
ProcessGestureFlingCancel == FALSE
FlingStopped == FALSE

\* Mutant: a fling start or cancel is handed to the controller whatever the
\* filter answered.
FlingControllerCalls_Unfiltered(type, consumed) ==
    IF type = FlingStart THEN <<"ProcessGestureFlingStart">>
    ELSE IF type = FlingCancel THEN <<"ProcessGestureFlingCancel">>
    ELSE <<>>

\* The calls FlingControllerFilterEvent makes into the fling controller after
\* the controller's filter has answered, in order.
FlingControllerCalls(type, consumed) ==
    IF consumed THEN <<>>
    ELSE IF type = FlingStart THEN <<"ProcessGestureFlingStart">>
    ELSE IF type = FlingCancel THEN <<"ProcessGestureFlingCancel">>
    ELSE <<>>

\* Mutant: the filter's answer is not returned.
FlingControllerFilterEventReturns_TypeOnly(type, consumed) ==
    IF type = FlingStart THEN TRUE
    ELSE IF type = FlingCancel THEN TRUE
    ELSE FALSE

\* The value FlingControllerFilterEvent returns.
FlingControllerFilterEventReturns(type, consumed) ==
    IF consumed THEN TRUE
    ELSE IF type = FlingStart THEN TRUE
    ELSE IF type = FlingCancel THEN TRUE
    ELSE FALSE

\* FlingControllerFilterEvent: the controller's filter may take the event;
\* a fling start or cancel it did not take is handed to the controller.
FlingControllerFilterEvent(type, consumed, started) ==
    /\ AtTopLevel
    /\ LET calls == FlingControllerCalls(type, consumed)
       IN  fling_in_progress' =
              IF calls = <<"ProcessGestureFlingStart">> THEN ProcessGestureFlingStart(started)
              ELSE IF calls = <<"ProcessGestureFlingCancel">> THEN ProcessGestureFlingCancel
              ELSE fling_in_progress
    /\ UNCHANGED <<ackVars, debounceVars, configVars, crashed, stack, next_id,
                   inputs, sent, forward_trace, filtered, flush_offered, deferred_gesture_queue_>>

\* Mutant: stopping the fling also ends the scrolling that the debounce stage
\* has flagged.
StopFling_ClearsFlag ==
    /\ AtTopLevel
    /\ fling_in_progress
    /\ fling_in_progress' = FlingStopped
    /\ scrolling_in_progress_' = FALSE
    /\ UNCHANGED <<ackVars, debouncing_deferral_queue_, timer_running, configVars, crashed,
                   stack, next_id, inputs, sent, forward_trace, filtered, flush_offered,
                   deferred_gesture_queue_>>

\* StopFling; a fling that runs out by itself leaves the same state.
StopFling ==
    /\ AtTopLevel
    /\ fling_in_progress
    /\ fling_in_progress' = FlingStopped
    /\ UNCHANGED <<ackVars, debounceVars, configVars, crashed, stack, next_id,
                   inputs, sent, forward_trace, filtered, flush_offered, deferred_gesture_queue_>>

\* ------------------------------------------------------------ side queue
\* Mutant: the event is stashed in the debounce deferral queue.
QueueDeferredEvents_IntoDebounceQueue(type) ==
    /\ AtTopLevel
    /\ next_id <= MaxEvents
    /\ next_id' = next_id + 1
    /\ debouncing_deferral_queue_' = Append(debouncing_deferral_queue_, Event(next_id, type))
    /\ UNCHANGED <<ackVars, scrolling_in_progress_, timer_running, configVars,
                   fling_in_progress, crashed, stack, inputs, sent, forward_trace, filtered,
                   flush_offered, deferred_gesture_queue_>>

\* QueueDeferredEvents(gesture_event) on a fresh event of the given type.
QueueDeferredEvents(type) ==
    /\ AtTopLevel
    /\ next_id <= MaxEvents
    /\ next_id' = next_id + 1
    /\ deferred_gesture_queue_' = Append(deferred_gesture_queue_, Event(next_id, type))
    /\ UNCHANGED <<ackVars, debounceVars, configVars, fling_in_progress, crashed,
                   stack, inputs, sent, forward_trace, filtered, flush_offered>>

\* The value TakeDeferredEvents returns: the local queue after the swap.
TakeDeferredEventsReturns == deferred_gesture_queue_

\* Mutant: the side queue is copied, not swapped out.
TakeDeferredEvents_NoClear ==
    /\ AtTopLevel
    /\ UNCHANGED <<ackVars, debounceVars, configVars, fling_in_progress, crashed,
                   stack, next_id, inputs, sent, forward_trace, filtered, flush_offered,
                   deferred_gesture_queue_>>

\* TakeDeferredEvents: the side queue is swapped with an empty local queue.
TakeDeferredEvents ==
    /\ AtTopLevel
    /\ deferred_gesture_queue_' = <<>>
    /\ UNCHANGED <<ackVars, debounceVars, configVars, fling_in_progress, crashed,
                   stack, next_id, inputs, sent, forward_trace, filtered, flush_offered>>

\* --------------------------------------------------------------- the owner
\* The owning context hands every event to FlingControllerFilterEvent first
\* and goes on with it only when that returned false: it then either passes
\* the event to DebounceOrForwardEvent or stashes it in the side queue.
OwnerOffers(type, consumed, started) ==
    /\ FlingControllerFilterEvent(type, consumed, started)
    /\ last_call' = Call("offer", type, consumed,
                         FlingControllerFilterEventReturns(type, consumed),
                         FlingControllerCalls(type, consumed), <<>>, "none")
    /\ offered' = offered \cup {next_id}
    /\ UNCHANGED <<stashed, timeVars>>

\* The event the owner offered last is still in its hands.
OwnerHolds(type) == last_call.op = "offer" /\ ~last_call.ret /\ last_call.type = type

OwnerForwards(type) ==
    /\ OwnerHolds(type)
    /\ DebounceOrForwardEvent(type)
    /\ last_call' = Call("enqueue", type, FALSE, inputs'[Len(inputs')].ret, <<>>, <<>>, "none")
    /\ UNCHANGED <<offered, stashed, timeVars>>

OwnerStashes(type) ==
    /\ OwnerHolds(type)
    /\ QueueDeferredEvents(type)
    /\ last_call' = Call("stash", type, FALSE, FALSE, <<>>, <<>>, "none")
    /\ stashed' = Append(stashed, Event(next_id, type))
    /\ UNCHANGED <<offered, timeVars>>

OwnerTakes ==
    /\ TakeDeferredEvents
    /\ last_call' = Call("take", "none", FALSE, FALSE, <<>>, TakeDeferredEventsReturns, "none")
    /\ stashed' = <<>>
    /\ UNCHANGED <<offered, timeVars>>

\* How ProcessGestureAck receives an acknowledgment of the given type.
AckOutcome(type) ==
    IF sent_events_awaiting_ack_ = <<>> THEN "unexpected"
    ELSE IF FirstUnknownOfType(sent_events_awaiting_ack_, type) = 0 THEN "unmatched"
    ELSE "matched"

ClientAcks(ack_source, ack_result, type) ==
    /\ ProcessGestureAck(ack_source, ack_result, type)
    /\ last_call' = Call("ack", type, FALSE, FALSE, <<>>, <<>>, AckOutcome(type))
    /\ UNCHANGED <<offered, stashed, timeVars>>

TimerFires ==
    /\ SendScrollEndingEventsNow
    /\ last_call' = Call("timer", "none", FALSE, FALSE, <<>>, <<>>, "none")
    /\ UNCHANGED <<offered, stashed, timeVars>>

OwnerStopsFling ==
    /\ StopFling
    /\ last_call' = Call("stop", "none", FALSE, FALSE, <<>>, <<>>, "none")
    /\ UNCHANGED <<offered, stashed, timeVars>>

\* A call of which the record keeps nothing.
Unrecorded == last_call' = NoCall /\ UNCHANGED <<offered, stashed, timeVars>>

\* --------------------------------------------------------- specifications
Next ==
    \/ \E t \in EventTypes : DebounceOrForwardEvent(t) /\ UNCHANGED <<ownerVars, timeVars>>
    \/ SendReturns /\ UNCHANGED <<ownerVars, timeVars>>
    \/ \E a \in AckInfos, t \in EventTypes : ClientAcks(a[1], a[2], t)
    \/ ReportReturns /\ UNCHANGED <<ownerVars, timeVars>>
    \/ TimerFires
    \/ \E c \in BOOLEAN : DrainNext(c) /\ UNCHANGED <<ownerVars, timeVars>>
    \/ DrainDone /\ UNCHANGED <<ownerVars, timeVars>>
    \/ \E t \in EventTypes, c \in BOOLEAN, st \in BOOLEAN : OwnerOffers(t, c, st)
    \/ \E t \in EventTypes : OwnerForwards(t)
    \/ \E t \in EventTypes : OwnerStashes(t)
    \/ OwnerTakes
    \/ OwnerStopsFling

\* The whole queue with every event type and every client behaviour, called
\* by the owner or by anyone else.
Spec == Init /\ [][Next]_vars

\* The queue fed with scroll events by a client that acknowledges,
\* in a build without DCHECKs and with no fling.
AckTypes == {ScrollBegin, ScrollUpdate, ScrollEnd}

InitAck == Init /\ ~dcheck_is_on

NextAck ==
    \/ \E t \in AckTypes : DebounceOrForwardEvent(t) /\ UNCHANGED <<ownerVars, timeVars>>
    \/ SendReturns /\ UNCHANGED <<ownerVars, timeVars>>
    \/ \E a \in AckInfos, t \in AckTypes :
          ProcessGestureAck(a[1], a[2], t) /\ UNCHANGED <<ownerVars, timeVars>>
    \/ ReportReturns /\ UNCHANGED <<ownerVars, timeVars>>
    \/ SendScrollEndingEventsNow /\ UNCHANGED <<ownerVars, timeVars>>
    \/ \E c \in BOOLEAN : DrainNext(c) /\ UNCHANGED <<ownerVars, timeVars>>
    \/ DrainDone /\ UNCHANGED <<ownerVars, timeVars>>

SpecAck == InitAck /\ [][NextAck]_vars

\* The queue fed with every event type, with flings starting and stopping,
\* by a client that has not acknowledged yet.  Of the events offered to
\* FlingControllerFilterEvent only fling starts and cancels are enumerated:
\* the others leave every variable as it is.
NextDebounce ==
    \/ \E t \in EventTypes : DebounceOrForwardEvent(t) /\ UNCHANGED <<ownerVars, timeVars>>
    \/ SendReturns /\ UNCHANGED <<ownerVars, timeVars>>
    \/ SendScrollEndingEventsNow /\ UNCHANGED <<ownerVars, timeVars>>
    \/ \E c \in BOOLEAN : DrainNext(c) /\ UNCHANGED <<ownerVars, timeVars>>
    \/ DrainDone /\ UNCHANGED <<ownerVars, timeVars>>
    \/ \E t \in FlingTypes, c \in BOOLEAN, st \in BOOLEAN :
          FlingControllerFilterEvent(t, c, st) /\ UNCHANGED <<ownerVars, timeVars>>
    \/ StopFling /\ UNCHANGED <<ownerVars, timeVars>>

SpecDebounce == Init /\ [][NextDebounce]_vars

\* The queue driven through its whole interface by an owner that offers every
\* event first, in a build with DCHECKs, before the client has acknowledged:
\* a scroll update, a tap, a fling start and a fling cancel stand for the
\* event types.
OwnerTypes == {ScrollUpdate, Tap, FlingStart, FlingCancel}

InitOwner == Init /\ dcheck_is_on

NextOwner ==
    \/ \E t \in OwnerTypes, c \in BOOLEAN, st \in BOOLEAN : OwnerOffers(t, c, st)
    \/ \E t \in OwnerTypes : OwnerForwards(t)
    \/ \E t \in OwnerTypes : OwnerStashes(t)
    \/ OwnerTakes
    \/ SendReturns /\ UNCHANGED <<ownerVars, timeVars>>
    \/ TimerFires
    \/ \E c \in BOOLEAN : DrainNext(c) /\ UNCHANGED <<ownerVars, timeVars>>
    \/ DrainDone /\ UNCHANGED <<ownerVars, timeVars>>
    \/ OwnerStopsFling

SpecOwner == InitOwner /\ [][NextOwner]_vars

\* The queue with its side queue in use, each operation called directly, in a
\* build without DCHECKs, debouncing, with no fling (the events offered to
\* FlingControllerFilterEvent are scroll updates and taps), with a client that
\* acknowledges in one way; the record of the last call keeps the
\* acknowledgments only.
SideTypes == {ScrollUpdate, Tap}
SideAck == <<"MAIN_THREAD", "NOT_CONSUMED">>

InitSide == Init /\ ~dcheck_is_on /\ debounce_interval_ = 1

NextSide ==
    \/ \E t \in SideTypes : DebounceOrForwardEvent(t) /\ Unrecorded
    \/ \E t \in SideTypes : QueueDeferredEvents(t) /\ Unrecorded
    \/ TakeDeferredEvents /\ Unrecorded
    \/ SendReturns /\ UNCHANGED <<ownerVars, timeVars>>
    \/ \E t \in SideTypes : ClientAcks(SideAck[1], SideAck[2], t)
    \/ ReportReturns /\ UNCHANGED <<ownerVars, timeVars>>
    \/ SendScrollEndingEventsNow /\ Unrecorded
    \/ \E c \in BOOLEAN : DrainNext(c) /\ UNCHANGED <<ownerVars, timeVars>>
    \/ DrainDone /\ UNCHANGED <<ownerVars, timeVars>>
    \/ \E t \in SideTypes, c \in BOOLEAN, st \in BOOLEAN :
          FlingControllerFilterEvent(t, c, st) /\ Unrecorded

SpecSide == InitSide /\ [][NextSide]_vars

\* ================================================================ claims
Ids(seq) == [i \in 1..Len(seq) |-> seq[i].id]
IdSet(seq) == {seq[i].id : i \in 1..Len(seq)}
IsPrefix(a, b) == Len(a) <= Len(b) /\ \A i \in 1..Len(a) : a[i] = b[i]
NoRepeat(seq) == \A i, j \in 1..Len(seq) : seq[i] = seq[j] => i = j
DistinctKinds(seq) == \A i, j \in 1..Len(seq) : seq[i].type = seq[j].type => i = j
Count(seq, id) == Cardinality({i \in 1..Len(seq) : seq[i].id = id})
Quiescent == stack = <<>> /\ ~processing_acks_

\* C1: when the forwarded events have pairwise distinct kinds and every one of
\* them has been matched by an acknowledgment, in whatever order, then once the
\* calls have returned OnGestureEventAck has been invoked once per event, in
\* the order the events were forwarded.
C1_AckOrdering ==
    (DistinctKinds(sent) /\ IdSet(acked) = IdSet(sent) /\ Quiescent)
        => Ids(reported) = Ids(sent)

\* Three events of distinct kinds acknowledged in the reverse of the forwarding
\* order, and all reported.
C1_Witness ==
    /\ Len(sent) = 3 /\ DistinctKinds(sent) /\ Quiescent
    /\ Ids(acked) = <<sent[3].id, sent[2].id, sent[1].id>>
    /\ Len(reported) = 3

\* C2: in every state OnGestureEventAck has been invoked at most once per
\* forwarded event, and the events reported so far are a prefix of the events
\* forwarded so far.
C2_ReportedPrefixOfSent ==
    /\ NoRepeat(Ids(reported))
    /\ IsPrefix(Ids(reported), Ids(sent))

\* Two forwarded events share a kind, one was forwarded by the timer flush,
\* and a proper, non-empty part of them has been reported.
C2_Witness ==
    /\ ~DistinctKinds(sent)
    /\ \E i \in 1..Len(inputs) : inputs[i].type = "TimerFired"
    /\ \E i \in 1..Len(inputs) : inputs[i].id # 0 /\ ~inputs[i].ret /\ inputs[i].id \in IdSet(sent)
    /\ reported # <<>> /\ Len(reported) < Len(sent)

\* C3: once OnGestureEventAck has acknowledged, from inside the callback, an
\* entry that was still buffered, every entry is still reported at most once
\* and in forwarding order, and the entry so acknowledged is reported after
\* every event forwarded before it.
C3_ReentrantAckKeepsOrder ==
    \A k \in 1..Len(acked) :
        acked[k].nested =>
            /\ NoRepeat(Ids(reported))
            /\ IsPrefix(Ids(reported), Ids(sent))
            /\ Count(reported, acked[k].id) <= 1
            /\ \A i \in 1..Len(reported) :
                   reported[i].id = acked[k].id =>
                       \A j \in 1..Len(sent) : sent[j].id < acked[k].id =>
                           \E h \in 1..(i - 1) : reported[h].id = sent[j].id

\* An acknowledgment made from inside OnGestureEventAck matched a buffered
\* entry that was not at the front, and the pass has since reported it.
C3_Witness ==
    \E k \in 1..Len(acked) :
        /\ acked[k].nested
        /\ \E i \in 2..Len(reported) : reported[i].id = acked[k].id
        /\ \E i \in 1..Len(reported) :
               reported[i].id > acked[k].id
        /\ Quiescent

\* The scenario of C9 and C10: A (scroll-begin), B (scroll-update) and C
\* (scroll-end) are the first three events forwarded, and the acknowledgments
\* matched so far are, in this order, C's, A's and B's.
ScenarioCAB ==
    /\ Len(sent) >= 3
    /\ sent[1].type = ScrollBegin /\ sent[2].type = ScrollUpdate /\ sent[3].type = ScrollEnd
    /\ Len(acked) >= 1 /\ acked[1].id = sent[3].id
    /\ Len(acked) >= 2 => acked[2].id = sent[1].id
    /\ Len(acked) >= 3 => acked[3].id = sent[2].id

FirstThree(seq) == SubSeq(seq, 1, IF Len(seq) < 3 THEN Len(seq) ELSE 3)

\* C9: in that scenario nothing is reported after C's acknowledgment, A is
\* reported by A's acknowledgment, and B then C are reported by B's, so that
\* the reports are A, B, C in this order.
C9_ContiguousRelease ==
    ScenarioCAB =>
        /\ Len(acked) = 1 => reported = <<>>
        /\ Len(acked) = 2 => Ids(reported) = <<sent[1].id>>
        /\ Len(acked) >= 3 =>
              /\ Len(reported) >= 1
              /\ IsPrefix(FirstThree(Ids(reported)), FirstThree(Ids(sent)))
              /\ Quiescent => FirstThree(Ids(reported)) = FirstThree(Ids(sent))

\* The three acknowledgments came in the order C, A, B, each from a task of
\* the client, and the three events have been reported.
C9_Witness ==
    /\ ScenarioCAB /\ Len(acked) = 3 /\ Len(sent) = 3 /\ Quiescent
    /\ \A k \in 1..3 : ~acked[k].nested
    /\ Ids(reported) = Ids(sent)

\* C10 as stated: in that scenario nothing is reported before the third
\* acknowledgment has been processed.
C10_NoReportBeforeThirdAck ==
    ScenarioCAB => (reported # <<>> => Len(acked) >= 3)

\* C10 amended: in that scenario every entry is reported with a known status,
\* A is reported only once A's acknowledgment (the second) has been
\* processed, and B and C only once all three have been acknowledged.
C10_ReportOnlyWhenFrontKnown ==
    ScenarioCAB =>
        /\ \A i \in 1..Len(reported) : reported[i].ack_state \in AckStates
        /\ Len(reported) >= 1 => Len(acked) >= 2
        /\ Len(reported) >= 2 => Len(acked) >= 3

\* A has been reported while B is still unacknowledged in the buffer.
C10_Witness ==
    /\ ScenarioCAB /\ Len(acked) = 2
    /\ Ids(reported) = <<sent[1].id>>
    /\ Len(sent_events_awaiting_ack_) = 2
    /\ sent_events_awaiting_ack_[1].ack_state = ACK_UNKNOWN
    /\ sent_events_awaiting_ack_[2].ack_state # ACK_UNKNOWN

\* The deferred events a running flush has still to handle.
InDrain(id) ==
    \E k \in 1..Len(stack) :
        stack[k].op = "drain" /\ \E j \in 1..Len(stack[k].rest) : stack[k].rest[j].id = id

IsFlingType(seq) == \E i \in 1..Len(seq) : seq[i].type \in FlingTypes

\* C4: no fling-start or fling-cancel event is ever passed to
\* SendGestureEventImmediately, held in the ack-ordering buffer, or deferred
\* for the timer flush.
C4_MomentumNeverForwarded ==
    /\ ~IsFlingType(sent)
    /\ ~IsFlingType(sent_events_awaiting_ack_)
    /\ ~IsFlingType(debouncing_deferral_queue_)
    /\ \A k \in 1..Len(stack) : ~IsFlingType(stack[k].rest)

LastInput == inputs[Len(inputs)]
IsEventInput(r) == r.id # 0
DebounceEnabled == debounce_interval_ > 0

\* Calls i, i+1 and i+2 are a scroll update, a tap and a scroll update, with
\* debouncing enabled, no fling in progress and no timer fire in between.
C5Scenario(i) ==
    /\ DebounceEnabled
    /\ Len(inputs) >= i + 2
    /\ inputs[i].type = ScrollUpdate /\ inputs[i + 1].type = Tap
    /\ inputs[i + 2].type = ScrollUpdate
    /\ \A k \in i..(i + 2) : ~inputs[k].fling

\* C5: with debouncing enabled and no fling in progress, when a scroll update,
\* a tap and a scroll update are handled with no timer fire in between, the
\* tap is never sent, and the deferral queue is empty right after the second
\* scroll update.
C5_TapSuperseded ==
    \A i \in 1..Len(inputs) :
        C5Scenario(i) =>
            /\ Count(sent, inputs[i + 1].id) = 0
            /\ ~InDrain(inputs[i + 1].id)
            /\ Len(inputs) = i + 2 => debouncing_deferral_queue_ = <<>>

\* The scenario, followed by the timer fire and the end of its flush.
C5_Witness ==
    /\ C5Scenario(1)
    /\ Len(inputs) = 4 /\ inputs[4].type = "TimerFired"
    /\ stack = <<>>
    /\ Len(sent) = 2

\* Calls i and i+1 are a scroll update and an event that is neither a scroll
\* update nor a pinch event, with debouncing enabled and no fling in progress.
C6Scenario(i) ==
    /\ DebounceEnabled
    /\ Len(inputs) >= i + 1
    /\ inputs[i].type = ScrollUpdate /\ ~inputs[i].fling
    /\ IsEventInput(inputs[i + 1]) /\ ~inputs[i + 1].fling
    /\ inputs[i + 1].type \notin PinchTypes \cup {ScrollUpdate}

\* C6: with debouncing enabled and no fling in progress, an event that is
\* neither a scroll update nor a pinch event and follows a scroll update is
\* not sent by its own call; when the timer fires next, the flush sends it
\* exactly once, unless the fling controller takes it then.
C6_DeferredSentOnceAtFire ==
    \A i \in 1..Len(inputs) :
        C6Scenario(i) =>
            LET x == inputs[i + 1].id
            IN  /\ ~inputs[i + 1].ret
                /\ Len(inputs) = i + 1 => Count(sent, x) = 0 /\ ~InDrain(x)
                /\ (Len(inputs) >= i + 2 /\ inputs[i + 2].type = "TimerFired") =>
                      Count(sent, x) = IF InDrain(x) \/ x \in filtered THEN 0 ELSE 1

\* The timer has fired after the deferred scroll end, and the flush sent it.
C6_Witness ==
    /\ C6Scenario(1)
    /\ inputs[2].type = ScrollEnd
    /\ Len(inputs) = 3 /\ inputs[3].type = "TimerFired"
    /\ stack = <<>>
    /\ Ids(sent) = <<inputs[1].id, inputs[2].id>>

\* C7: a call of DebounceOrForwardEvent made while a fling is in progress,
\* with an event that is neither a fling start nor a fling cancel, passes the
\* event to SendGestureEventImmediately within the call and returns true.
C7_FlingBypass ==
    [][\A t \in EventTypes \ FlingTypes :
          (fling_in_progress /\ DebounceOrForwardEvent(t)) =>
              /\ sent' = Append(sent, Event(next_id, t))
              /\ stack' = <<SendFrame(Event(next_id, t))>>
              /\ inputs'[Len(inputs')].ret]_vars

\* A tap arrived during a fling, while scrolling was flagged and the timer
\* armed, and was sent by the call.
C7_Witness ==
    /\ inputs # <<>> /\ DebounceEnabled
    /\ LastInput.type = Tap /\ LastInput.fling /\ LastInput.scrolling /\ LastInput.ret
    /\ timer_running
    /\ sent # <<>> /\ sent[Len(sent)].id = LastInput.id
    /\ stack # <<>> /\ Top.op = "send"

\* No pinch event is in the deferral queue or in a flush under way.
NoPinchDeferred ==
    /\ \A i \in 1..Len(debouncing_deferral_queue_) :
           debouncing_deferral_queue_[i].type \notin PinchTypes
    /\ \A k \in 1..Len(stack) : \A j \in 1..Len(stack[k].rest) :
           stack[k].rest[j].type \notin PinchTypes

\* C8: a pinch begin, update or end passed to DebounceOrForwardEvent is sent
\* within the call, which returns true and leaves the scrolling flag, the
\* timer and the deferral queue as they were; no pinch event is ever in the
\* deferral queue.
C8_PinchIndependence ==
    /\ []NoPinchDeferred
    /\ [][\A t \in PinchTypes :
             DebounceOrForwardEvent(t) =>
                 /\ sent' = Append(sent, Event(next_id, t))
                 /\ stack' = <<SendFrame(Event(next_id, t))>>
                 /\ inputs'[Len(inputs')].ret
                 /\ UNCHANGED debounceVars]_vars

\* A pinch update arrived with no fling, while scrolling was flagged, the
\* timer armed and a tap deferred, and was sent by the call.
C8_Witness ==
    /\ inputs # <<>> /\ DebounceEnabled
    /\ LastInput.type = PinchUpdate /\ ~LastInput.fling /\ LastInput.scrolling /\ LastInput.ret
    /\ scrolling_in_progress_ /\ timer_running
    /\ Len(debouncing_deferral_queue_) = 1
    /\ sent # <<>> /\ sent[Len(sent)].id = LastInput.id

\* DebounceOrForwardEvent returned false for the event: it was deferred.
WasDeferred(id) == \E i \in 1..Len(inputs) : inputs[i].id = id /\ ~inputs[i].ret

\* The events the flush under way has still to handle.
DrainRest == IF stack # <<>> /\ stack[1].op = "drain" THEN stack[1].rest ELSE <<>>

OfferStep(started) ==
    /\ last_call'.op = "offer"
    /\ OwnerOffers(last_call'.type, last_call'.consumed, started)

\* C12: FlingControllerFilterEvent, for every event type, answer of the
\* filter and state, calls neither SendGestureEventImmediately nor
\* OnGestureEventAck and leaves the ack buffer, the debounce deferral queue,
\* the side queue, the scrolling flag and the timer as they were; it returns
\* true when the filter took the event.
C12_OfferFiltersOnly ==
    [][\A st \in BOOLEAN :
          OfferStep(st) =>
              /\ UNCHANGED <<sent, reported, stack, sent_events_awaiting_ack_,
                             processing_acks_, debouncing_deferral_queue_,
                             deferred_gesture_queue_, scrolling_in_progress_,
                             timer_running>>
              /\ last_call'.consumed => last_call'.ret]_vars

\* The filter took the event offered last, with an entry in the ack buffer,
\* an event deferred, the timer armed and an event in the side queue.
C12_Witness ==
    /\ last_call.op = "offer" /\ last_call.consumed /\ last_call.ret
    /\ sent_events_awaiting_ack_ # <<>> /\ sent # <<>>
    /\ debouncing_deferral_queue_ # <<>>
    /\ deferred_gesture_queue_ # <<>>
    /\ scrolling_in_progress_ /\ timer_running

\* C13: FlingControllerFilterEvent returns false exactly when the filter did
\* not take the event and the event is neither a fling start nor a fling
\* cancel; a fling start (cancel) the filter did not take is handed to
\* ProcessGestureFlingStart (ProcessGestureFlingCancel) exactly once and true
\* is returned; neither is called when the filter took the event.
C13_OfferResult ==
    [][\A st \in BOOLEAN :
          OfferStep(st) =>
            LET t == last_call'.type
                c == last_call'.consumed
            IN
              /\ ~last_call'.ret <=> (~c /\ t \notin FlingTypes)
              /\ (~c /\ t = FlingStart) =>
                    /\ last_call'.calls = <<"ProcessGestureFlingStart">>
                    /\ last_call'.ret
                    /\ fling_in_progress' = ProcessGestureFlingStart(st)
              /\ (~c /\ t = FlingCancel) =>
                    /\ last_call'.calls = <<"ProcessGestureFlingCancel">>
                    /\ last_call'.ret
                    /\ fling_in_progress' = ProcessGestureFlingCancel
              /\ c => last_call'.calls = <<>> /\ UNCHANGED fling_in_progress
              /\ t \notin FlingTypes => last_call'.calls = <<>>]_vars

\* A fling start the filter did not take was handed to the controller, which
\* started a fling, after a tap for which false was returned had been sent.
C13_Witness ==
    /\ last_call.op = "offer" /\ last_call.type = FlingStart
    /\ ~last_call.consumed /\ last_call.ret
    /\ last_call.calls = <<"ProcessGestureFlingStart">>
    /\ fling_in_progress
    /\ \E i \in 1..Len(sent) : sent[i].type = Tap

\* The step is a call of DebounceOrForwardEvent that returned, on the event
\* that the record of the call shows.
EnqueueStep ==
    /\ Len(inputs') = Len(inputs) + 1
    /\ DebounceOrForwardEvent(inputs'[Len(inputs')].type)
    /\ ~crashed'

\* C14: DebounceOrForwardEvent returns true exactly when during the call the
\* event was passed to SendGestureEventImmediately, once, with one new Unknown
\* entry for it at the tail of the ack buffer; it returns false exactly when
\* the event was appended to the debounce deferral queue, and then nothing was
\* sent and the ack buffer is as it was.
C14_ReturnTellsForwarded ==
    [][EnqueueStep =>
         LET e   == Event(next_id, inputs'[Len(inputs')].type)
             ret == inputs'[Len(inputs')].ret
         IN  /\ ret <=> /\ sent' = Append(sent, e)
                        /\ sent_events_awaiting_ack_' =
                              Append(sent_events_awaiting_ack_,
                                     [id |-> e.id, type |-> e.type,
                                      ack_state |-> ACK_UNKNOWN,
                                      ack_source |-> SOURCE_NONE])
                        /\ stack' = <<SendFrame(e)>>
             /\ ~ret <=> debouncing_deferral_queue_' =
                            Append(debouncing_deferral_queue_, e)
             /\ ~ret => UNCHANGED <<sent, sent_events_awaiting_ack_, stack>>]_vars

\* One call returned true and its event was sent; the last call returned
\* false and its event is at the tail of the deferral queue, not sent.
C14_Witness ==
    /\ inputs # <<>> /\ IsEventInput(LastInput) /\ ~LastInput.ret /\ ~crashed
    /\ debouncing_deferral_queue_ # <<>>
    /\ debouncing_deferral_queue_[Len(debouncing_deferral_queue_)].id = LastInput.id
    /\ LastInput.id \notin IdSet(sent)
    /\ \E i \in 1..Len(inputs) : inputs[i].ret /\ inputs[i].id \in IdSet(sent)
    /\ Len(sent) = Len(sent_events_awaiting_ack_)

\* The step is a call of ProcessGestureAck, with the type that the record of
\* the call shows.
AckStep ==
    /\ last_call'.op = "ack"
    /\ ClientAcks(SideAck[1], SideAck[2], last_call'.type)

\* C15: ProcessGestureAck called while the ack buffer is empty does nothing:
\* OnGestureEventAck is not called, and the buffer, the two deferral queues,
\* the scrolling flag and the timer are as they were.
C15_UnexpectedAckIsNoOp ==
    [][(AckStep /\ sent_events_awaiting_ack_ = <<>>) =>
          UNCHANGED <<reported, sent_events_awaiting_ack_, processing_acks_,
                      debouncing_deferral_queue_, deferred_gesture_queue_,
                      scrolling_in_progress_, timer_running, stack, sent,
                      fling_in_progress>>]_vars

\* The last call was an acknowledgment that found the buffer empty, after an
\* event had been sent and reported, with a tap deferred, the timer armed and
\* an event in the side queue.
C15_Witness ==
    /\ last_call.op = "ack" /\ last_call.outcome = "unexpected"
    /\ sent_events_awaiting_ack_ = <<>>
    /\ Len(reported) = 1 /\ Len(sent) = 1
    /\ debouncing_deferral_queue_ # <<>> /\ timer_running /\ scrolling_in_progress_
    /\ deferred_gesture_queue_ # <<>>

\* The non-empty ack buffer has no entry that is Unknown and of the type.
NoUnknownOfType(type) ==
    /\ sent_events_awaiting_ack_ # <<>>
    /\ \A i \in 1..Len(sent_events_awaiting_ack_) :
          ~ (/\ sent_events_awaiting_ack_[i].ack_state = ACK_UNKNOWN
             /\ sent_events_awaiting_ack_[i].type = type)

\* C16: ProcessGestureAck with a type of which the non-empty ack buffer has no
\* Unknown entry changes no entry (states, sources and positions stay) and
\* causes no OnGestureEventAck call.
C16_UnmatchedAckIgnored ==
    [][(AckStep /\ NoUnknownOfType(last_call'.type)) =>
          UNCHANGED <<sent_events_awaiting_ack_, reported, processing_acks_,
                      stack, acked>>]_vars

\* The last call was an acknowledgment of a tap that matched nothing: the
\* buffer holds an Unknown scroll update in front of a tap acknowledged before.
C16_Witness ==
    /\ last_call.op = "ack" /\ last_call.outcome = "unmatched" /\ last_call.type = Tap
    /\ Len(sent_events_awaiting_ack_) = 2
    /\ sent_events_awaiting_ack_[1].type = ScrollUpdate
    /\ sent_events_awaiting_ack_[1].ack_state = ACK_UNKNOWN
    /\ sent_events_awaiting_ack_[2].type = Tap
    /\ sent_events_awaiting_ack_[2].ack_state # ACK_UNKNOWN
    /\ reported = <<>>

\* The call of DebounceOrForwardEvent recorded in r returned: it did not end
\* in a failed DCHECK.
Returned(r) == IsEventInput(r) /\ ~(dcheck_is_on /\ r.type \in FlingTypes)

TakeStep == last_call'.op = "take" /\ OwnerTakes

\* C18: TakeDeferredEvents returns the events passed to QueueDeferredEvents
\* since the previous TakeDeferredEvents, in the order they were passed, and
\* leaves the side queue empty; called right after another TakeDeferredEvents
\* it returns the empty sequence.
C18_TakeReturnsStashed ==
    [][TakeStep =>
          /\ last_call'.taken = stashed
          /\ deferred_gesture_queue_' = <<>>
          /\ last_call.op = "take" => last_call'.taken = <<>>]_vars

\* The last call took two events, in the order they had been stashed, after
\* an earlier event had been stashed and taken.
C18_Witness ==
    /\ last_call.op = "take"
    /\ Len(last_call.taken) = 2
    /\ last_call.taken[1].id = 2 /\ last_call.taken[2].id = 3
    /\ deferred_gesture_queue_ = <<>> /\ stashed = <<>>
    /\ sent = <<>> /\ inputs = <<>>

\* A step of QueueDeferredEvents or of TakeDeferredEvents.
SideQueueStep ==
    \/ \E t \in SideTypes : QueueDeferredEvents(t)
    \/ TakeDeferredEvents

\* A step of DebounceOrForwardEvent, of ProcessGestureAck, of
\* FlingControllerFilterEvent or of the timer's SendScrollEndingEventsNow,
\* the client's returns included.
CoreStep ==
    \/ \E t \in SideTypes : DebounceOrForwardEvent(t)
    \/ \E t \in SideTypes : ProcessGestureAck(SideAck[1], SideAck[2], t)
    \/ \E t \in SideTypes, c \in BOOLEAN, st \in BOOLEAN :
          FlingControllerFilterEvent(t, c, st)
    \/ SendScrollEndingEventsNow
    \/ \E c \in BOOLEAN : DrainNext(c)
    \/ DrainDone
    \/ SendReturns
    \/ ReportReturns

\* C19: QueueDeferredEvents and TakeDeferredEvents call neither
\* SendGestureEventImmediately nor OnGestureEventAck and leave the ack buffer,
\* the debounce deferral queue, the scrolling flag and the timer as they
\* were; DebounceOrForwardEvent, ProcessGestureAck, FlingControllerFilterEvent
\* and the timer's flush leave the side queue as it was.
C19_SideQueueIndependent ==
    [][/\ SideQueueStep =>
             UNCHANGED <<sent, reported, stack, sent_events_awaiting_ack_,
                         processing_acks_, debouncing_deferral_queue_,
                         scrolling_in_progress_, timer_running>>
       /\ CoreStep => UNCHANGED deferred_gesture_queue_]_vars

\* The event stashed first is still in the side queue after a scroll update
\* was sent, acknowledged and reported and a tap was deferred and sent by the
\* timer's flush.
C19_Witness ==
    /\ Len(deferred_gesture_queue_) = 1 /\ deferred_gesture_queue_[1].id = 1
    /\ Len(sent) = 2 /\ WasDeferred(sent[2].id)
    /\ Len(reported) = 1
    /\ \E i \in 1..Len(inputs) : ~IsEventInput(inputs[i])

\* The client is inside SendGestureEventImmediately for an event that it has
\* not acknowledged yet.
InSendBeforeAck ==
    /\ stack # <<>> /\ Top.op = "send"
    /\ \A i \in 1..Len(acked) : acked[i].id # Top.ev.id

\* No entry in front of the last one is Unknown.
NoEarlierUnknown ==
    \A i \in 1..(Len(sent_events_awaiting_ack_) - 1) :
        sent_events_awaiting_ack_[i].ack_state # ACK_UNKNOWN

\* The entry of the event being sent is at the tail of the ack buffer, Unknown.
EntryAtTail ==
    /\ sent_events_awaiting_ack_ # <<>>
    /\ sent_events_awaiting_ack_[Len(sent_events_awaiting_ack_)].id = Top.ev.id
    /\ sent_events_awaiting_ack_[Len(sent_events_awaiting_ack_)].ack_state = ACK_UNKNOWN

\* C20: whenever the client is inside SendGestureEventImmediately the entry
\* of the event being sent is at the tail of the ack buffer, Unknown; so an
\* acknowledgment of that type made from inside the call finds the buffer
\* non-empty and matches an Unknown entry, and when no earlier entry is
\* Unknown OnGestureEventAck is called for that event before
\* SendGestureEventImmediately returns.
C20_EntryBeforeSend ==
    [][/\ InSendBeforeAck' => EntryAtTail'
       /\ InSendBeforeAck =>
             \A a \in AckInfos :
                ProcessGestureAck(a[1], a[2], Top.ev.type) =>
                   /\ Len(acked') = Len(acked) + 1
                   /\ NoEarlierUnknown =>
                         /\ acked'[Len(acked')].id = Top.ev.id
                         /\ reported' = Append(reported,
                               [id |-> Top.ev.id, type |-> Top.ev.type,
                                ack_source |-> a[1], ack_state |-> a[2]])
                         /\ stack' = Append(stack, ReportFrame(Top.ev))]_vars

\* The client acknowledged an event from inside SendGestureEventImmediately
\* and is now inside OnGestureEventAck for it, called from there, after an
\* earlier event had been sent and reported.
C20_Witness ==
    /\ Len(stack) = 2
    /\ stack[1].op = "send" /\ stack[2].op = "report"
    /\ stack[1].ev = stack[2].ev
    /\ Len(reported) = 2 /\ reported[2].id = stack[1].ev.id
    /\ sent_events_awaiting_ack_ = <<>>

\* ------------------------------------------------ acknowledgment matching
\* Debouncing switched off (Config::debounce_interval of zero), so that every
\* event is forwarded at once: the acknowledgments, with both results, and
\* the client's two callbacks.
InitMatch == Init /\ ~dcheck_is_on /\ debounce_interval_ = 0

NextMatch ==
    \/ \E t \in AckTypes : DebounceOrForwardEvent(t) /\ UNCHANGED <<ownerVars, timeVars>>
    \/ SendReturns /\ UNCHANGED <<ownerVars, timeVars>>
    \/ \E a \in AckInfos, t \in AckTypes :
          ProcessGestureAck(a[1], a[2], t) /\ UNCHANGED <<ownerVars, timeVars>>
    \/ ReportReturns /\ UNCHANGED <<ownerVars, timeVars>>

SpecMatch == InitMatch /\ [][NextMatch]_vars

\* -------------------------------------------------------------- C21
\* The forwarded events of one type, and the matched acknowledgments of the
\* events of one type, in order.
SentOfType(type) ==
    LET OfType(e) == e.type = type IN SelectSeq(sent, OfType)
AckedOfType(type) ==
    LET OfType(a) == \E i \in 1..Len(sent) : sent[i].id = a.id /\ sent[i].type = type
    IN  SelectSeq(acked, OfType)

\* The acknowledgment that matched the event with this id.
AckOf(id) == acked[CHOOSE k \in 1..Len(acked) : acked[k].id = id]

\* C21: among the forwarded events of one type, the k-th acknowledgment that
\* matches anything is recorded on the k-th forwarded event of that type, and
\* what is recorded on an entry, and later passed to OnGestureEventAck for it,
\* is the source and result of the acknowledgment that matched it.
C21_FifoPerKind ==
    /\ \A type \in EventTypes :
          /\ Len(AckedOfType(type)) <= Len(SentOfType(type))
          /\ \A k \in 1..Len(AckedOfType(type)) :
                AckedOfType(type)[k].id = SentOfType(type)[k].id
    /\ NoRepeat(Ids(acked))
    /\ \A i \in 1..Len(sent_events_awaiting_ack_) :
          LET entry == sent_events_awaiting_ack_[i]
          IN  IF entry.id \in IdSet(acked)
              THEN /\ entry.ack_state = AckOf(entry.id).ack_state
                   /\ entry.ack_source = AckOf(entry.id).ack_source
              ELSE entry.ack_state = ACK_UNKNOWN
    /\ \A i \in 1..Len(reported) :
          /\ reported[i].id \in IdSet(acked)
          /\ reported[i].ack_state = AckOf(reported[i].id).ack_state
          /\ reported[i].ack_source = AckOf(reported[i].id).ack_source

\* Two events of one type were acknowledged with different results, the second
\* of them while the first was still the only one acknowledged, and both were
\* reported with the result of their own acknowledgment.
C21_Witness ==
    /\ Quiescent
    /\ Len(reported) >= 2
    /\ reported[1].type = reported[2].type
    /\ reported[1].ack_state # reported[2].ack_state
    /\ reported[1].id < reported[2].id
    /\ Len(acked) >= 2
    /\ acked[1].id = reported[1].id /\ acked[1].ack_state = reported[1].ack_state
    /\ acked[2].id = reported[2].id /\ acked[2].ack_state = reported[2].ack_state

\* -------------------------------------------------------------- C22
\* The OnGestureEventAck invocations that have not returned.
ReportFrames == {i \in 1..Len(stack) : stack[i].op = "report"}

\* The entry with this id is in buffer buf, behind one that is still Unknown.
BehindUnknown(buf, id) ==
    \E i \in 1..Len(buf) :
        /\ buf[i].id = id
        /\ \E j \in 1..(i - 1) : buf[j].ack_state = ACK_UNKNOWN

\* An acknowledgment matched an entry while a pass was running.
NestedAckStep == processing_acks_ /\ Len(acked') = Len(acked) + 1

\* C22 as stated: once no pass is running, every entry that was marked while
\* a pass was running has been reported.
C22_NestedMarkAlwaysReported ==
    \A k \in 1..Len(acked) :
        (~processing_acks_ /\ acked[k].nested) => acked[k].id \in IdSet(reported)

\* C22: OnGestureEventAck invocations are never nested; processing_acks_ is
\* set exactly while one of them has not returned; an acknowledgment that
\* arrives while a pass is running marks its entry and releases nothing; and
\* once no pass is running, every entry marked during a pass has been reported,
\* in forwarding order, unless an entry forwarded before it is still Unknown.
C22_NoNestedRelease ==
    [][/\ Cardinality(ReportFrames') <= 1
       /\ processing_acks_' = (ReportFrames' # {})
       /\ NestedAckStep =>
             /\ reported' = reported
             /\ stack' = stack
             /\ processing_acks_'
             /\ Ids(sent_events_awaiting_ack_') = Ids(sent_events_awaiting_ack_)
             /\ acked'[Len(acked')].nested
       /\ IsPrefix(Ids(reported'), Ids(sent'))
       /\ \A k \in 1..Len(acked') :
             (~processing_acks_' /\ acked'[k].nested) =>
                 \/ acked'[k].id \in IdSet(reported')
                 \/ BehindUnknown(sent_events_awaiting_ack_', acked'[k].id)]_vars

\* Two entries were marked from inside OnGestureEventAck; the pass that was
\* running reported one of them after the callback returned and has ended,
\* and the other is still buffered.
C22_Witness ==
    /\ Quiescent
    /\ \E k \in 1..Len(acked) :
          /\ acked[k].nested
          /\ Len(reported) >= 2
          /\ reported[Len(reported)].id = acked[k].id

\* -------------------------------------------------------------- C23
\* C23: whenever no pass of AckCompletedEvents is running, the buffer is empty
\* or its front entry is Unknown, and every buffered entry with a known state
\* has an entry forwarded before it that is still Unknown.
C23_FrontUnknownAtRest ==
    ~processing_acks_ =>
        /\ \/ sent_events_awaiting_ack_ = <<>>
           \/ sent_events_awaiting_ack_[1].ack_state = ACK_UNKNOWN
        /\ \A i \in 1..Len(sent_events_awaiting_ack_) :
               sent_events_awaiting_ack_[i].ack_state # ACK_UNKNOWN =>
                   \E j \in 1..(i - 1) :
                       /\ sent_events_awaiting_ack_[j].ack_state = ACK_UNKNOWN
                       /\ sent_events_awaiting_ack_[j].id < sent_events_awaiting_ack_[i].id

\* A pass has released the first event and ended; of the two entries left the
\* second has been acknowledged and waits behind the first, still Unknown.
C23_Witness ==
    /\ Quiescent
    /\ Len(reported) = 1
    /\ Len(sent_events_awaiting_ack_) = 2
    /\ sent_events_awaiting_ack_[1].ack_state = ACK_UNKNOWN
    /\ sent_events_awaiting_ack_[2].ack_state # ACK_UNKNOWN

\* -------------------------------------------------------------- C28
\* The acknowledgment matched in this step, if one was.
AckMatchedStep == Len(acked') = Len(acked) + 1
LastAcked == acked[Len(acked)]

\* Entry `after` is entry `before`, untouched or marked by the acknowledgment
\* matched in this step: from Unknown, to the source and result it carried.
SameOrMarked(before, after) ==
    /\ after.id = before.id /\ after.type = before.type
    /\ after # before =>
          /\ before.ack_state = ACK_UNKNOWN
          /\ AckMatchedStep
          /\ LastAcked'.id = before.id
          /\ after.ack_state = LastAcked'.ack_state
          /\ after.ack_source = LastAcked'.ack_source

\* C28: a step changes the state of at most one buffered entry, and only in
\* a ProcessGestureAck that matched it, from Unknown to the result supplied;
\* the entries keep their order; an entry leaves the buffer only from the
\* front, with a state that is not Unknown, as it is reported.
C28_AckChangesStatusOnly ==
    [][LET before == sent_events_awaiting_ack_
           after  == sent_events_awaiting_ack_'
       IN  \/ /\ Len(after) = Len(before) + 1
              /\ SubSeq(after, 1, Len(before)) = before
              /\ ~AckMatchedStep
           \/ /\ Len(after) = Len(before)
              /\ \A j \in 1..Len(after) : SameOrMarked(before[j], after[j])
              /\ reported' = reported
           \/ /\ Len(after) = Len(before) - 1
              /\ \A j \in 1..Len(after) : SameOrMarked(before[j + 1], after[j])
              /\ Len(reported') = Len(reported) + 1
              /\ SubSeq(reported', 1, Len(reported)) = reported
              /\ SameOrMarked(before[1], reported'[Len(reported')])
              /\ reported'[Len(reported')].ack_state # ACK_UNKNOWN]_vars

\* An acknowledgment has just marked the second of two buffered entries, the
\* first of which is still Unknown, after an entry acknowledged with the other
\* result had left from the front.
C28_Witness ==
    /\ Len(reported) = 1 /\ Len(acked) = 2
    /\ Len(sent_events_awaiting_ack_) = 2
    /\ sent_events_awaiting_ack_[1].ack_state = ACK_UNKNOWN
    /\ sent_events_awaiting_ack_[2].id = LastAcked.id
    /\ sent_events_awaiting_ack_[2].ack_state = LastAcked.ack_state
    /\ sent_events_awaiting_ack_[2].ack_state # reported[1].ack_state

\* -------------------------------------------------------------- C29
\* An event as SendGestureEventImmediately and OnGestureEventAck identify it.
Events(seq) == [i \in 1..Len(seq) |-> Event(seq[i].id, seq[i].type)]

\* C29: whenever no call into the client is under way and no pass is running,
\* the events passed to SendGestureEventImmediately so far are the events
\* passed to OnGestureEventAck so far followed by the buffered entries, in
\* this order.
C29_PendingAckConservation ==
    Quiescent =>
        Events(sent) = Events(reported) \o Events(sent_events_awaiting_ack_)

\* Three events were sent, one of them by the flush of the deferral queue;
\* the first has been reported and the other two are buffered.
C29_Witness ==
    /\ Quiescent
    /\ Len(sent) = 3 /\ Len(reported) = 1 /\ Len(sent_events_awaiting_ack_) = 2
    /\ \E i \in 1..Len(sent) : WasDeferred(sent[i].id)

\* -------------------------------------------------------------- C24
\* C24: in every reachable state the deferral queue is non-empty only if
\* scrolling_in_progress_ is set or debounce_deferring_timer_ is armed.
C24_DeferredOnlyWhileScrolling ==
    debouncing_deferral_queue_ # <<>> => (scrolling_in_progress_ \/ timer_running)

\* After a flush of the deferral queue, a new scroll update has set the flag
\* and armed the timer again and an event has been deferred.
C24_Witness ==
    /\ debouncing_deferral_queue_ # <<>>
    /\ scrolling_in_progress_ /\ timer_running
    /\ \E i \in 1..Len(inputs) : ~IsEventInput(inputs[i])

\* -------------------------------------------------------------- C26
\* The step is a call of DebounceOrForwardEvent on a scroll update.
ScrollUpdateStep ==
    /\ Len(inputs') = Len(inputs) + 1
    /\ inputs'[Len(inputs')].type = ScrollUpdate

\* C26: a scroll update passed to DebounceOrForwardEvent is sent within the
\* call, which returns true, and is neither deferred nor dropped; with
\* debouncing enabled and no fling in progress the call also sets
\* scrolling_in_progress_ and leaves the deferral queue empty, so that every
\* event deferred before is discarded.
C26_ScrollUpdateAlwaysSent ==
    [][ScrollUpdateStep =>
          LET e == Event(next_id, ScrollUpdate)
          IN  /\ inputs'[Len(inputs')].id = e.id
              /\ inputs'[Len(inputs')].ret
              /\ ~crashed'
              /\ sent' = Append(sent, e)
              /\ stack' = <<SendFrame(e)>>
              /\ sent_events_awaiting_ack_' =
                    Append(sent_events_awaiting_ack_, GestureEventWithLatencyInfoAndAckState(e))
              /\ \A i \in 1..Len(debouncing_deferral_queue_') :
                    debouncing_deferral_queue_'[i].id # e.id
              /\ (DebounceEnabled /\ ~fling_in_progress) =>
                    /\ scrolling_in_progress_'
                    /\ debouncing_deferral_queue_' = <<>>]_vars

\* A scroll update arrived while scrolling was flagged and an event was
\* deferred: it was sent by the call, the queue is empty and the deferred
\* event was not sent.
C26_Witness ==
    /\ DebounceEnabled
    /\ Len(inputs) >= 3
    /\ LastInput.type = ScrollUpdate /\ LastInput.scrolling /\ ~LastInput.fling
    /\ LastInput.ret
    /\ WasDeferred(inputs[Len(inputs) - 1].id)
    /\ Count(sent, inputs[Len(inputs) - 1].id) = 0
    /\ sent[Len(sent)].id = LastInput.id
    /\ debouncing_deferral_queue_ = <<>> /\ scrolling_in_progress_

\* -------------------------------------------------------------- C25
\* A flush of the deferral queue is under way.
InFlush == stack # <<>> /\ stack[1].op = "drain"

\* The step is the timer fire; the step is one turn of the loop of the flush.
FireStep == Len(inputs') = Len(inputs) + 1 /\ inputs'[Len(inputs')].type = "TimerFired"
FlushTurn == flush_offered' # flush_offered

\* C25: the timer fire clears scrolling_in_progress_ and takes the whole
\* deferral queue before anything is sent, so that the flag is clear and the
\* queue empty for as long as the flush lasts; the flush then passes the
\* deferred events to the fling controller's filter one by one in the order
\* they were deferred, sends none of those the controller takes, and sends
\* each of the others once, in that order.
C25_FlushInDeferralOrder ==
    [][/\ InFlush' => (~scrolling_in_progress_' /\ debouncing_deferral_queue_' = <<>>)
       /\ IF FireStep
          THEN /\ DrainRest' = debouncing_deferral_queue_
               /\ ~scrolling_in_progress_' /\ debouncing_deferral_queue_' = <<>>
               /\ sent' = sent /\ filtered' = filtered
          ELSE IF FlushTurn
          THEN /\ DrainRest # <<>>
               /\ LET e == Head(DrainRest)
                  IN  /\ flush_offered' = flush_offered \cup {e.id}
                      /\ e.id \notin flush_offered
                      /\ DrainRest' = Tail(DrainRest)
                      /\ Count(sent, e.id) = 0
                      /\ IF e.id \in filtered'
                         THEN sent' = sent
                         ELSE sent' = Append(sent, e) /\ filtered' = filtered
          ELSE /\ DrainRest' = DrainRest
               /\ filtered' = filtered
               /\ sent' # sent => sent' = Append(sent, Event(next_id, LastInput'.type))]_vars

\* The timer fired with two events deferred; the flush has ended, the fling
\* controller took one of the two and the other was sent.
C25_Witness ==
    /\ stack = <<>>
    /\ Len(inputs) = 4 /\ inputs[4].type = "TimerFired"
    /\ WasDeferred(inputs[2].id) /\ WasDeferred(inputs[3].id)
    /\ flush_offered = {inputs[2].id, inputs[3].id}
    /\ Cardinality(filtered) = 1
    /\ Len(sent) = 2 /\ sent[2].id \in flush_offered

\* -------------------------------------------------------------- C30
\* What the claim expects ForwardGestureEvent to do for event e, in order.
ExpectedForwardCalls(e) ==
    IF e.type = ScrollBegin
    THEN <<"push_back", "RegisterFlingSchedulerObserver", "SendGestureEventImmediately">>
    ELSE IF e.type = ScrollEnd
    THEN <<"push_back", "UnregisterFlingSchedulerObserver", "SendGestureEventImmediately">>
    ELSE <<"push_back", "SendGestureEventImmediately">>

\* C30: forwarding a scroll begin calls RegisterFlingSchedulerObserver once and
\* forwarding a scroll end calls UnregisterFlingSchedulerObserver once, after
\* the entry is appended to the buffer and before SendGestureEventImmediately;
\* forwarding any other event calls neither; and no step that sends nothing,
\* such as the call that defers an event or the scroll update that drops it
\* from the deferral queue, makes either call: a deferred event causes them
\* only when the flush forwards it.
C30_ObserverCallsOnForward ==
    [][IF sent' # sent
       THEN LET e == sent'[Len(sent')]
            IN  /\ sent' = Append(sent, e)
                /\ Count(sent, e.id) = 0
                /\ sent_events_awaiting_ack_' =
                      Append(sent_events_awaiting_ack_,
                             GestureEventWithLatencyInfoAndAckState(e))
                /\ forward_trace' =
                      forward_trace \o Traced(e, ExpectedForwardCalls(e))
       ELSE forward_trace' = forward_trace]_vars

\* A scroll begin was forwarded by its own call and a scroll end was deferred
\* and then forwarded by the flush; the observer was registered for the first
\* and unregistered for the second.
C30_Witness ==
    /\ stack = <<>>
    /\ \E i, j \in 1..Len(sent) :
          /\ sent[i].type = ScrollBegin /\ ~WasDeferred(sent[i].id)
          /\ sent[j].type = ScrollEnd /\ WasDeferred(sent[j].id)
          /\ \E k \in 1..Len(forward_trace) :
                forward_trace[k] = [op |-> "RegisterFlingSchedulerObserver", id |-> sent[i].id]
          /\ \E k \in 1..Len(forward_trace) :
                forward_trace[k] = [op |-> "UnregisterFlingSchedulerObserver", id |-> sent[j].id]

\* ------------------------------------------------- the quiet-period timer
\* Mutant: the timer is started by the first scroll update and left alone by
\* the following ones.
TimerCall_StartOnly(e) ==
    IF debounce_interval_ <= 0 THEN "none"
    ELSE IF fling_in_progress THEN "none"
    ELSE IF e.type = ScrollUpdate /\ ~scrolling_in_progress_ THEN "Start"
    ELSE "none"

\* The call ShouldForwardForBounceReduction makes on debounce_deferring_timer_
\* for event e.
TimerCall(e) ==
    IF debounce_interval_ <= 0 THEN "none"
    ELSE IF fling_in_progress THEN "none"
    ELSE IF e.type = ScrollUpdate
    THEN IF ~scrolling_in_progress_ THEN "Start" ELSE "Reset"
    ELSE "none"

\* base::OneShotTimer: Start abandons a callback that is pending and schedules
\* one a delay from now; Reset does the same with the delay of the last Start.
OneShotTimerStart(delay) == {now + delay}
OneShotTimerReset(delay) == {now + delay}

\* DebounceOrForwardEvent with the clock: what the call does to the timer.
TimedDebounceOrForwardEvent(type) ==
    /\ DebounceOrForwardEvent(type)
    /\ LET call == TimerCall(Event(next_id, type))
       IN  timer_due' = IF crashed' THEN timer_due
                        ELSE IF call = "Start" THEN OneShotTimerStart(debounce_interval_)
                        ELSE IF call = "Reset" THEN OneShotTimerReset(debounce_interval_)
                        ELSE timer_due
    /\ last_scroll_update' =
          IF type = ScrollUpdate /\ debounce_interval_ > 0 /\ ~fling_in_progress
          THEN now ELSE last_scroll_update
    /\ UNCHANGED <<now, ownerVars>>

\* A debounce interval goes by with the queue idle.
Tick ==
    /\ AtTopLevel
    /\ now < MaxTime
    /\ now' = now + 1
    /\ UNCHANGED <<ackVars, debounceVars, configVars, fling_in_progress, crashed, stack,
                   next_id, inputs, sent, forward_trace, filtered, flush_offered,
                   deferred_gesture_queue_, ownerVars, timer_due, last_scroll_update>>

\* The timer runs a callback that is due.
OneShotTimerFires ==
    /\ \E due \in timer_due : due <= now /\ timer_due' = timer_due \ {due}
    /\ SendScrollEndingEventsNow
    /\ UNCHANGED <<now, last_scroll_update, ownerVars>>

TimerTypes == {ScrollUpdate, Tap}

InitTimer == Init /\ ~dcheck_is_on /\ debounce_interval_ = 1

NextTimer ==
    \/ \E t \in TimerTypes : TimedDebounceOrForwardEvent(t)
    \/ SendReturns /\ UNCHANGED <<ownerVars, timeVars>>
    \/ Tick
    \/ OneShotTimerFires
    \/ \E c \in BOOLEAN : DrainNext(c) /\ UNCHANGED <<ownerVars, timeVars>>
    \/ DrainDone /\ UNCHANGED <<ownerVars, timeVars>>
    \/ \E t \in FlingTypes, c \in BOOLEAN, st \in BOOLEAN :
          FlingControllerFilterEvent(t, c, st) /\ UNCHANGED <<ownerVars, timeVars>>
    \/ StopFling /\ UNCHANGED <<ownerVars, timeVars>>

\* The debounce stage with its timer on a clock.
SpecTimer == InitTimer /\ [][NextTimer]_vars

\* -------------------------------------------------------------- C27
\* The step is a scroll update that the debounce stage handles: debouncing is
\* enabled and no fling is in progress.
DebouncedScrollUpdateStep ==
    ScrollUpdateStep /\ debounce_interval_ > 0 /\ ~fling_in_progress

\* C27: at most one callback of the timer is pending at any time, and the
\* timer is armed exactly when one is; a scroll update handled by the debounce
\* stage leaves a single callback pending, due one debounce interval from
\* then, whether or not one was pending before; and the timer fires no
\* earlier than one debounce interval after the last such scroll update.
C27_TimerRetriggerable ==
    [][/\ Cardinality(timer_due') <= 1
       /\ timer_running' = (timer_due' # {})
       /\ DebouncedScrollUpdateStep => timer_due' = {now + debounce_interval_}
       /\ FireStep =>
             /\ now >= last_scroll_update + debounce_interval_
             /\ timer_due' = {}]_vars

\* The timer fired one interval after the second of two scroll updates, the
\* second of which arrived one interval after the first, when the callback
\* scheduled by the first was due.
C27_Witness ==
    /\ Len(inputs) >= 3
    /\ inputs[1].type = ScrollUpdate /\ ~inputs[1].scrolling /\ ~inputs[1].fling
    /\ inputs[2].type = ScrollUpdate /\ inputs[2].scrolling /\ ~inputs[2].fling
    /\ inputs[3].type = "TimerFired"
    /\ last_scroll_update = 1
    /\ now = 2
    /\ timer_due = {}

\* -------------------------------------------------------------- C31
\* The step is a call of DebounceOrForwardEvent made while a fling is in
\* progress.
FlingEnqueueStep ==
    /\ Len(inputs') = Len(inputs) + 1
    /\ IsEventInput(LastInput')
    /\ fling_in_progress

InitFlag == Init /\ ~dcheck_is_on

NextFlag ==
    \/ \E t \in SideTypes : DebounceOrForwardEvent(t) /\ UNCHANGED <<ownerVars, timeVars>>
    \/ SendReturns /\ UNCHANGED <<ownerVars, timeVars>>
    \/ \E t \in SideTypes :
          ProcessGestureAck(SideAck[1], SideAck[2], t) /\ UNCHANGED <<ownerVars, timeVars>>
    \/ ReportReturns /\ UNCHANGED <<ownerVars, timeVars>>
    \/ SendScrollEndingEventsNow /\ UNCHANGED <<ownerVars, timeVars>>
    \/ \E c \in BOOLEAN : DrainNext(c) /\ UNCHANGED <<ownerVars, timeVars>>
    \/ DrainDone /\ UNCHANGED <<ownerVars, timeVars>>
    \/ \E t \in FlingTypes, c \in BOOLEAN, st \in BOOLEAN :
          FlingControllerFilterEvent(t, c, st) /\ UNCHANGED <<ownerVars, timeVars>>
    \/ StopFling /\ UNCHANGED <<ownerVars, timeVars>>

SpecFlag == InitFlag /\ [][NextFlag]_vars

\* -------------------------------------------------------------- C32
\* C32: scrolling_in_progress_ is set exactly when the timer is armed; it
\* becomes set only in a DebounceOrForwardEvent on a scroll update with
\* debouncing enabled and no fling in progress, and becomes clear only when
\* the timer fires; no other event, no acknowledgment and no start or stop of
\* a fling changes it.
C32_FlagIffTimerArmed ==
    [][/\ scrolling_in_progress_' = timer_running'
       /\ (scrolling_in_progress_' /\ ~scrolling_in_progress_) => DebouncedScrollUpdateStep
       /\ (~scrolling_in_progress_' /\ scrolling_in_progress_) => FireStep
       /\ (timer_running' /\ ~timer_running) => DebouncedScrollUpdateStep
       /\ (~timer_running' /\ timer_running) => FireStep]_vars

\* The flag was set, cleared by a timer fire and set again by a scroll update,
\* with a fling started and an acknowledgment matched along the way.
C32_Witness ==
    /\ scrolling_in_progress_ /\ timer_running
    /\ \E i \in 1..Len(inputs) : inputs[i].type = "TimerFired" /\ inputs[i].scrolling
    /\ \E i \in 1..Len(inputs) : IsEventInput(inputs[i]) /\ inputs[i].fling
    /\ acked # <<>>
    /\ LastInput.type = ScrollUpdate /\ ~LastInput.scrolling

\* ------------------------------------------- every event is acknowledged
\* The client acknowledges an event it was sent and has not acknowledged yet:
\* an acknowledgment of a type arrives only while an entry of that type is
\* still Unknown, so that each forwarded event gets one acknowledgment of its
\* own type after it was forwarded.
AckArrives(ack_source, ack_result, type) ==
    /\ FirstUnknownOfType(sent_events_awaiting_ack_, type) # 0
    /\ ProcessGestureAck(ack_source, ack_result, type)
    /\ UNCHANGED <<ownerVars, timeVars>>

SomeAckArrives == \E t \in AckTypes : AckArrives(SideAck[1], SideAck[2], t)
SendReturnsLive == SendReturns /\ UNCHANGED <<ownerVars, timeVars>>
ReportReturnsLive == ReportReturns /\ UNCHANGED <<ownerVars, timeVars>>

NextLive ==
    \/ \E t \in AckTypes : DebounceOrForwardEvent(t) /\ UNCHANGED <<ownerVars, timeVars>>
    \/ SendReturnsLive
    \/ SomeAckArrives
    \/ ReportReturnsLive

\* The client's callbacks return, and an acknowledgment that is owed arrives.
FairnessLive ==
    /\ WF_vars(SendReturnsLive)
    /\ WF_vars(ReportReturnsLive)
    /\ WF_vars(SomeAckArrives)

SpecLive == InitMatch /\ [][NextLive]_vars /\ FairnessLive

\* -------------------------------------------------------------- C33
\* As long as the acknowledgment of a forwarded event has not arrived, neither
\* that event nor any event forwarded after it has been reported.
NoReportPastUnacked ==
    \A i \in 1..Len(sent) :
        sent[i].id \notin IdSet(acked) =>
            \A j \in i..Len(sent) : sent[j].id \notin IdSet(reported)

\* C33: when every forwarded event gets one acknowledgment of its own type
\* after it was forwarded, every forwarded event is eventually passed to
\* OnGestureEventAck and the buffer is empty again and again, for good once
\* forwarding has stopped; and for as long as the acknowledgment of an entry
\* has not arrived, no entry forwarded after it is reported.
C33_AckReleaseLiveness ==
    /\ []NoReportPastUnacked
    /\ \A id \in 1..MaxEvents : (id \in IdSet(sent)) ~> (id \in IdSet(reported))
    /\ []<>(sent_events_awaiting_ack_ = <<>>)
    /\ <>[](sent_events_awaiting_ack_ = <<>> \/ next_id <= MaxEvents)

\* All the events were forwarded, the acknowledgment of the second arrived
\* before that of the first, and every event has been reported.
C33_Witness ==
    /\ Quiescent
    /\ Len(sent) = MaxEvents /\ Len(reported) = MaxEvents
    /\ sent_events_awaiting_ack_ = <<>>
    /\ acked[1].id = sent[2].id

\* ------------------------------------------------- the timer does fire
TimerFiresLive == SendScrollEndingEventsNow /\ UNCHANGED <<ownerVars, timeVars>>
FlushTurnLive == \E c \in BOOLEAN : DrainNext(c) /\ UNCHANGED <<ownerVars, timeVars>>
FlushEndsLive == DrainDone /\ UNCHANGED <<ownerVars, timeVars>>

NextFlush ==
    \/ \E t \in SideTypes : DebounceOrForwardEvent(t) /\ UNCHANGED <<ownerVars, timeVars>>
    \/ SendReturnsLive
    \/ TimerFiresLive
    \/ FlushTurnLive
    \/ FlushEndsLive
    \/ \E t \in FlingTypes, c \in BOOLEAN, st \in BOOLEAN :
          FlingControllerFilterEvent(t, c, st) /\ UNCHANGED <<ownerVars, timeVars>>
    \/ StopFling /\ UNCHANGED <<ownerVars, timeVars>>

\* The armed timer fires once the queue is idle, the loop of the flush goes on
\* and the client returns from SendGestureEventImmediately.
FairnessFlush ==
    /\ WF_vars(TimerFiresLive)
    /\ WF_vars(FlushTurnLive)
    /\ WF_vars(FlushEndsLive)
    /\ WF_vars(SendReturnsLive)

SpecFlush == InitSide /\ [][NextFlush]_vars /\ FairnessFlush

\* -------------------------------------------------------------- C34
InDeferralQueue(id) ==
    \E i \in 1..Len(debouncing_deferral_queue_) : debouncing_deferral_queue_[i].id = id

\* After the event was deferred, and before any timer fire, the debounce
\* stage handled a scroll update, which cleared the deferral queue.
DiscardedByScrollUpdate(id) ==
    \E i, j \in 1..Len(inputs) :
        /\ i < j
        /\ inputs[i].id = id /\ ~inputs[i].ret
        /\ inputs[j].type = ScrollUpdate /\ ~inputs[j].fling
        /\ \A k \in (i + 1)..(j - 1) : IsEventInput(inputs[k])

\* Where a deferred event has gone once it is out of the deferral queue.
LeftDeferralQueue(id) ==
    \/ Count(sent, id) = 1
    \/ id \in filtered
    \/ DiscardedByScrollUpdate(id)

\* C34: with the armed timer firing in the end, every event put in the
\* deferral queue leaves it: it is sent by the flush of a timer fire, taken by
\* the fling controller at that flush, or discarded by a later scroll update;
\* and it is in the queue, or in the hands of a flush, until then.
C34_DeferredEventuallyLeaves ==
    /\ \A id \in 1..MaxEvents :
          /\ InDeferralQueue(id) ~> (~InDeferralQueue(id) /\ LeftDeferralQueue(id))
          /\ [](WasDeferred(id) =>
                  (InDeferralQueue(id) \/ InDrain(id) \/ LeftDeferralQueue(id)))
          /\ []((InDeferralQueue(id) \/ InDrain(id)) =>
                  (Count(sent, id) = 0 /\ id \notin filtered))
    /\ <>[](debouncing_deferral_queue_ = <<>>)

\* Of two deferred events in the queue when the timer fired, the flush has
\* sent one and the fling controller has taken the other.
C34_Witness ==
    /\ stack = <<>> /\ debouncing_deferral_queue_ = <<>>
    /\ \E i, j \in 1..Len(inputs) :
          /\ IsEventInput(inputs[i]) /\ WasDeferred(inputs[i].id)
          /\ Count(sent, inputs[i].id) = 1
          /\ IsEventInput(inputs[j]) /\ WasDeferred(inputs[j].id)
          /\ inputs[j].id \in filtered
          /\ Count(sent, inputs[j].id) = 0

\* -------------------------------------------------------------- C35
SentImmediately(id) == \E i \in 1..Len(inputs) : inputs[i].id = id /\ inputs[i].ret

\* The number of places holding the event for a later send.
HeldForFlush(id) ==
    Count(debouncing_deferral_queue_, id)
      + (IF stack # <<>> /\ stack[1].op = "drain" THEN Count(stack[1].rest, id) ELSE 0)

\* C35: an event given to DebounceOrForwardEvent is sent at most once.  One
\* sent by its own call is never in the deferral queue nor held by a flush; a
\* deferred one is held at most once, is not held any more once it is sent,
\* and a send of it is a step of the flush of a timer fire.
C35_SentAtMostOnce ==
    \A id \in 1..MaxEvents :
        /\ Count(sent, id) <= 1
        /\ Count(inputs, id) <= 1
        /\ HeldForFlush(id) + Count(sent, id) <= 1
        /\ SentImmediately(id) => HeldForFlush(id) = 0
        /\ ~(SentImmediately(id) /\ WasDeferred(id))
        /\ (WasDeferred(id) /\ Count(sent, id) = 1) => id \in flush_offered

\* Events were sent by their own calls and a deferred one by the flush of a
\* timer fire, acknowledgments have arrived and a new scroll sequence is on.
C35_Witness ==
    /\ stack = <<>>
    /\ Len(sent) = MaxEvents
    /\ \E id \in 1..MaxEvents : WasDeferred(id) /\ Count(sent, id) = 1
    /\ \E id \in 1..MaxEvents : SentImmediately(id) /\ Count(sent, id) = 1
    /\ reported # <<>>
    /\ Count(inputs, 0) >= 1

====
